---- MODULE Spec2Model ----
(***************************************************************************)
(* Model of the CallDataParser token metadata registry                     *)
(* (src/src/utils/tokenResolver.ts) and of the recursive value formatter   *)
(* (utils/enhancedFormatter.ts, the chain-aware revision).                 *)
(*                                                                         *)
(* JavaScript runs every stretch of code between two awaits to completion, *)
(* so one action of the model is one such stretch.  Text that the code     *)
(* inspects (addresses, amounts) is a sequence of one-character strings;   *)
(* text that the code only produces is a TLA+ string.                      *)
(***************************************************************************)
EXTENDS Integers, Sequences, FiniteSets, TLC

VARIABLES
    networksData,   \* tokenResolver.ts:30  null, or the list of networks
    tokenCache,     \* tokenResolver.ts:29  Map key -> TokenInfo
    fetchPromise,   \* tokenResolver.ts:31  "null" | "pending" | "fulfilled" | "rejected"
    fetchPc,        \* where the body of the fetch promise is suspended
    requests,       \* number of requests sent to the metadata endpoint
    fetchOutcome,   \* "none" | "ok" | "failed": how the body of the fetch ended
    calls           \* the resolveToken / getNetworksData / formatValueEnhanced calls

vars == <<networksData, tokenCache, fetchPromise, fetchPc, requests, fetchOutcome, calls>>

(***************************************************************************)
(* Bounds of the model.                                                    *)
(***************************************************************************)
NumCallers == 2
MaxNetworks == 2

Callers == 1..NumCallers

(***************************************************************************)
(* Text.                                                                   *)
(***************************************************************************)
RECURSIVE Rep(_, _)
Rep(c, n) == IF n = 0 THEN <<>> ELSE <<c>> \o Rep(c, n - 1)

RECURSIVE StrFrom(_, _)
StrFrom(s, i) == IF i > Len(s) THEN "" ELSE s[i] \o StrFrom(s, i + 1)
Str(s) == StrFrom(s, 1)

UpperHex == {"A", "B", "C", "D", "E", "F"}
LowerHex == {"a", "b", "c", "d", "e", "f"}
Digits == {"0", "1", "2", "3", "4", "5", "6", "7", "8", "9"}
HexChars == Digits \cup LowerHex \cup UpperHex

ToLowerChar(c) ==
    CASE c = "A" -> "a" [] c = "B" -> "b" [] c = "C" -> "c"
      [] c = "D" -> "d" [] c = "E" -> "e" [] c = "F" -> "f"
      [] c = "X" -> "x" [] c = "G" -> "g"
      [] OTHER -> c

ToUpperChar(c) ==
    CASE c = "a" -> "A" [] c = "b" -> "B" [] c = "c" -> "C"
      [] c = "d" -> "D" [] c = "e" -> "E" [] c = "f" -> "F"
      [] c = "x" -> "X" [] c = "g" -> "G"
      [] OTHER -> c

\* String.prototype.toLowerCase
ToLowerCase(s) == [i \in 1..Len(s) |-> ToLowerChar(s[i])]

\* String.prototype.startsWith('0x')
StartsWith0x(s) == Len(s) >= 2 /\ s[1] = "0" /\ s[2] = "x"

(***************************************************************************)
(* Addresses.                                                              *)
(***************************************************************************)
AddressHexLen == 40

\* viem's addressRegex /^0x[a-fA-F0-9]{40}$/
MatchesAddressRegex(s) ==
    /\ Len(s) = 2 + AddressHexLen
    /\ StartsWith0x(s)
    /\ \A i \in 3..Len(s) : s[i] \in HexChars

\* viem's checksumAddress (EIP-55).  The real casing is decided by the
\* keccak256 hash of the lower-case address; the model stands a fixed casing
\* in for it (the letters at the odd hex positions are upper case).  All the
\* code relies on is that each address has exactly one checksummed spelling.
ChecksumAddress(s) ==
    [i \in 1..Len(s) |->
        IF i >= 3 /\ i % 2 = 1 THEN ToUpperChar(ToLowerChar(s[i])) ELSE ToLowerChar(s[i])]

\* viem's isAddress(address), strict by default: the regex, then either all
\* lower case or a correct EIP-55 checksum.
IsAddress(s) ==
    /\ MatchesAddressRegex(s)
    /\ \/ ToLowerCase(s) = s
       \/ ChecksumAddress(s) = s

ZERO_ADDRESS == <<"0", "x">> \o Rep("0", AddressHexLen)

TOKEN_A == <<"0", "x">> \o Rep("a", AddressHexLen)
\* a well-formed address that no network of the model lists
TOKEN_B == <<"0", "x">> \o Rep("b", AddressHexLen)
TOKEN_A_CHECKSUM == ChecksumAddress(TOKEN_A)
TOKEN_A_UPPER == <<"0", "x">> \o Rep("A", AddressHexLen)
SHORT_ADDRESS == <<"0", "x">> \o Rep("a", AddressHexLen - 1)
NONHEX_ADDRESS == <<"0", "x">> \o Rep("g", AddressHexLen)

(***************************************************************************)
(* JavaScript values.  A value is a record tagged by t.                    *)
(***************************************************************************)
JsNull == [t |-> "null"]
JsUndefined == [t |-> "undefined"]
JsStr(s) == [t |-> "str", s |-> s]
JsArr(items) == [t |-> "arr", items |-> items]

\* ToBoolean of the values the registry tests (networksData, token.contract)
Truthy(v) ==
    CASE v.t = "str" -> v.s # <<>>
      [] v.t = "arr" -> TRUE
      [] OTHER -> FALSE

\* chainId is a string, null or undefined; every use tests its truth value
\* (tokenResolver.ts:117, `chainId || undefined` in the formatter), so the
\* absent id is modelled by the one falsy string.
NoChain == ""

(***************************************************************************)
(* The response of the metadata endpoint.                                  *)
(***************************************************************************)
LayerSwapToken(symbol, contract, decimals) ==
    [symbol |-> symbol, contract |-> contract, decimals |-> decimals,
     logo |-> "logo:" \o symbol, price_in_usd |-> 1]

LayerSwapNetwork(chain_id, tokens) == [chain_id |-> chain_id, tokens |-> tokens]

\* The networks a response is made of: one contract listed on two networks
\* under different symbols and spellings; beside it on the second network a
\* native token, a token at the all-zero address and a token whose contract
\* is no address; and a network whose token list is missing.
NetworkPool ==
    { LayerSwapNetwork("1", JsArr(<<LayerSwapToken("USDC", JsStr(TOKEN_A_CHECKSUM), 6)>>)),
      LayerSwapNetwork("2", JsArr(<<LayerSwapToken("DAI", JsStr(TOKEN_A), 18),
                                     LayerSwapToken("ETH", JsNull, 18),
                                     LayerSwapToken("ZERO", JsStr(ZERO_ADDRESS), 8),
                                     LayerSwapToken("JUNK", JsStr(NONHEX_ADDRESS), 2)>>)),
      LayerSwapNetwork("3", JsNull) }

RECURSIVE SeqsUpTo(_, _)
SeqsUpTo(S, n) ==
    IF n = 0 THEN {<<>>}
    ELSE LET shorter == SeqsUpTo(S, n - 1)
         IN  shorter \cup {Append(q, x) : q \in shorter, x \in S}

\* data.data of a decoded response: a list of networks, or absent
ResponseData == {JsUndefined} \cup {JsArr(ns) : ns \in SeqsUpTo(NetworkPool, MaxNetworks)}

(***************************************************************************)
(* fetchLayerSwapData: building the cache.                                 *)
(***************************************************************************)
TokenInfo(token) ==
    [symbol |-> token.symbol, decimals |-> token.decimals, logo |-> token.logo,
     contract |-> token.contract, priceInUsd |-> token.price_in_usd]

\* Map.prototype.set
MapSet(cache, key, value) == (key :> value) @@ cache

\* line 76 writing the address-only key only when it is not yet there
KeepFirstCacheToken(cache, chain_id, token) ==
    LET address == IF Truthy(token.contract)
                   THEN Str(ToLowerCase(token.contract.s)) ELSE "native"
        key == chain_id \o ":" \o address
        scoped == MapSet(cache, key, TokenInfo(token))
    IN  IF Truthy(token.contract) /\ ~(Str(ToLowerCase(token.contract.s)) \in DOMAIN cache)
        THEN MapSet(scoped, Str(ToLowerCase(token.contract.s)), TokenInfo(token))
        ELSE scoped

\* the body of the inner loop; token.contract is a string or null here
CacheToken(cache, chain_id, token) ==
    LET address == IF Truthy(token.contract)
                   THEN Str(ToLowerCase(token.contract.s)) ELSE "native"
        key == chain_id \o ":" \o address
        scoped == MapSet(cache, key, TokenInfo(token))
    IN  IF Truthy(token.contract)
        THEN MapSet(scoped, Str(ToLowerCase(token.contract.s)), TokenInfo(token))
        ELSE scoped

\* the inner loop over network.tokens; `token.contract?.toLowerCase()` throws
\* for a contract that is neither a string nor null
RECURSIVE CacheTokens(_, _, _)
CacheTokens(cache, chain_id, tokens) ==
    IF tokens = <<>> THEN [cache |-> cache, threw |-> FALSE]
    ELSE IF Head(tokens).contract.t \notin {"str", "null", "undefined"}
    THEN [cache |-> cache, threw |-> TRUE]
    ELSE CacheTokens(CacheToken(cache, chain_id, Head(tokens)), chain_id, Tail(tokens))

\* the outer loop over networksData; iterating a missing token list throws
RECURSIVE BuildCache(_, _)
BuildCache(cache, networks) ==
    IF networks = <<>> THEN [cache |-> cache, threw |-> FALSE]
    ELSE IF Head(networks).tokens.t # "arr"
    THEN [cache |-> cache, threw |-> TRUE]
    ELSE LET inner == CacheTokens(cache, Head(networks).chain_id, Head(networks).tokens.items)
         IN  IF inner.threw THEN inner ELSE BuildCache(inner.cache, Tail(networks))

EmptyList == JsArr(<<>>)

\* The try / catch around the body of the fetch promise: whatever is thrown is
\* caught, networksData becomes [] and the promise is fulfilled all the same.
\* data is the value networksData had when the body ended or threw.
NoCatchFetchBody(threw, data, cache) ==
    [networksData |-> data, tokenCache |-> cache,
     fetchPromise |-> IF threw THEN "rejected" ELSE "fulfilled",
     fetchOutcome |-> IF threw THEN "failed" ELSE "ok"]

\* a body that forgets a failed fetch, so that a later call fetches again
RetryAfterFailure(threw, data, cache) ==
    [networksData |-> IF threw THEN JsNull ELSE data,
     tokenCache |-> cache,
     fetchPromise |-> IF threw THEN "null" ELSE "fulfilled",
     fetchOutcome |-> IF threw THEN "failed" ELSE "ok"]

FetchBodyEnd(threw, data, cache) ==
    [networksData |-> IF threw THEN EmptyList ELSE data,
     tokenCache |-> cache,
     fetchPromise |-> "fulfilled",
     fetchOutcome |-> IF threw THEN "failed" ELSE "ok"]

\* lines 53-81 once response.json() has resolved with data
DecodeAndCache(data, cache) ==
    IF data.t # "arr" THEN FetchBodyEnd(TRUE, data, cache)
    ELSE LET built == BuildCache(cache, data.items)
         IN  FetchBodyEnd(built.threw, data, built.cache)

\* which way fetchLayerSwapData goes (lines 37-40)
AlwaysStartFetch == IF Truthy(networksData) THEN "loaded" ELSE "start"

EnsureBranch ==
    IF Truthy(networksData) THEN "loaded"
    ELSE IF fetchPromise # "null" THEN "join"
    ELSE "start"

(***************************************************************************)
(* resolveToken, after the await (lines 98-124).                           *)
(***************************************************************************)
NativeToken ==
    [symbol |-> "ETH", decimals |-> 18, logo |-> "", contract |-> JsNull, priceInUsd |-> 0]

Found(info) == [t |-> "token", info |-> info]
NotFound == [t |-> "null"]

\* line 99
NeverNative(address) == FALSE

IsNativeOrEmpty(address) == address = <<>> \/ address = ZERO_ADDRESS

\* tokenCache.get
MapHas(cache, key) == key \in DOMAIN cache

\* lines 117-118: the key to try first, "" when there is none
ScopedKey(chainId, lowerAddress) ==
    IF chainId # "" THEN chainId \o ":" \o lowerAddress ELSE ""

\* lines 114-124
FallbackFirstLookup(address, chainId, cache) ==
    LET lowerAddress == Str(ToLowerCase(address))
        key == ScopedKey(chainId, lowerAddress)
    IN  IF MapHas(cache, lowerAddress) THEN Found(cache[lowerAddress])
        ELSE IF key # "" /\ MapHas(cache, key) THEN Found(cache[key])
        ELSE NotFound

NoLowerCaseLookup(address, chainId, cache) ==
    LET lowerAddress == Str(address)
        key == ScopedKey(chainId, lowerAddress)
    IN  IF key # "" /\ MapHas(cache, key) THEN Found(cache[key])
        ELSE IF MapHas(cache, lowerAddress) THEN Found(cache[lowerAddress])
        ELSE NotFound

\* lines 117-124 once the lower-cased address and the scoped key are known
LookupKeys(keys, cache) ==
    IF keys.key # "" /\ MapHas(cache, keys.key) THEN Found(cache[keys.key])
    ELSE IF MapHas(cache, keys.lowerAddress) THEN Found(cache[keys.lowerAddress])
    ELSE NotFound

CacheLookup(address, chainId, cache) ==
    LET lowerAddress == Str(ToLowerCase(address))
        key == ScopedKey(chainId, lowerAddress)
    IN  CHOOSE found \in {LookupKeys(keys, cache) :
                             keys \in {[lowerAddress |-> lowerAddress, key |-> key]}} : TRUE

ResolveTokenBody(address, chainId, cache) ==
    IF IsNativeOrEmpty(address) THEN Found(NativeToken)
    ELSE IF ~IsAddress(address) THEN NotFound
    ELSE CacheLookup(address, chainId, cache)

(***************************************************************************)
(* The calls.  A call is suspended once, at `await fetchLayerSwapData()`.  *)
(***************************************************************************)
NoResult == [t |-> "none"]

\* `value` and `contextToken` are the arguments of a formatter call
IdleCall ==
    [pc |-> "idle", kind |-> "none", address |-> <<>>, chainId |-> NoChain,
     value |-> JsUndefined, contextToken |-> JsUndefined,
     via |-> "none", result |-> NoResult]

Init ==
    /\ networksData = JsNull
    /\ tokenCache = << >>
    /\ fetchPromise = "null"
    /\ fetchPc = "idle"
    /\ requests = 0
    /\ fetchOutcome = "none"
    /\ calls = [c \in Callers |-> IdleCall]

\* The synchronous part of a call: fetchLayerSwapData up to its return, then
\* the caller's await.  A call that finds the data loaded awaits a promise
\* that is already resolved; the others await fetchPromise.
Await(c, kind, address, chainId, value, contextToken) ==
    /\ calls[c].pc \in {"idle", "returned"}
    /\ LET branch == EnsureBranch
       IN  /\ calls' = [calls EXCEPT ![c] =
                          [pc |-> IF branch = "loaded" THEN "ready" ELSE "awaiting",
                           kind |-> kind, address |-> address, chainId |-> chainId,
                           value |-> value, contextToken |-> contextToken,
                           via |-> branch, result |-> NoResult]]
           /\ IF branch = "start"
              THEN /\ fetchPromise' = "pending"
                   /\ fetchPc' = "awaitFetch"
                   /\ requests' = requests + 1
              ELSE UNCHANGED <<fetchPromise, fetchPc, requests>>
    /\ UNCHANGED <<networksData, tokenCache, fetchOutcome>>

Enter(c, kind, address, chainId) == Await(c, kind, address, chainId, JsUndefined, JsUndefined)

CallResolveToken(c, address, chainId) == Enter(c, "resolveToken", address, chainId)

CallGetNetworksData(c) == Enter(c, "getNetworksData", <<>>, NoChain)

\* the awaited promise has settled
ResumesUnsettled(call) == call.pc \in {"ready", "awaiting"}

\* a continuation that runs only for a call that found the data loaded
ResumesLoadedOnly(call) == call.pc = "ready"

CanResume(call) ==
    \/ call.pc = "ready"
    \/ call.pc = "awaiting" /\ fetchPromise \in {"fulfilled", "rejected"}

\* getNetworksData, after the await (line 132)
NetworksResult == IF Truthy(networksData) THEN networksData ELSE EmptyList

\* The rest of a call after its await; a rejected fetchPromise rejects it.
Resume(c) ==
    /\ CanResume(calls[c])
    /\ calls' = [calls EXCEPT ![c] =
          IF calls[c].pc = "awaiting" /\ fetchPromise = "rejected"
          THEN [@ EXCEPT !.pc = "rejected"]
          ELSE [@ EXCEPT !.pc = "returned",
                         !.result = IF calls[c].kind = "resolveToken"
                                    THEN ResolveTokenBody(calls[c].address,
                                                          calls[c].chainId, tokenCache)
                                    ELSE NetworksResult]]
    /\ UNCHANGED <<networksData, tokenCache, fetchPromise, fetchPc, requests, fetchOutcome>>

(***************************************************************************)
(* The body of the fetch promise (lines 40-86).                            *)
(***************************************************************************)
EndFetch(end) ==
    /\ networksData' = end.networksData
    /\ tokenCache' = end.tokenCache
    /\ fetchPromise' = end.fetchPromise
    /\ fetchOutcome' = end.fetchOutcome
    /\ fetchPc' = "done"
    /\ UNCHANGED <<requests, calls>>

\* fetch() rejects: a transport error
FetchRejects ==
    /\ fetchPc = "awaitFetch"
    /\ EndFetch(FetchBodyEnd(TRUE, networksData, tokenCache))

\* fetch() resolves with a response whose status is not OK (lines 49-51)
FetchNotOk ==
    /\ fetchPc = "awaitFetch"
    /\ EndFetch(FetchBodyEnd(TRUE, networksData, tokenCache))

\* fetch() resolves with an OK response: the body goes on to response.json()
FetchOk ==
    /\ fetchPc = "awaitFetch"
    /\ fetchPc' = "awaitJson"
    /\ UNCHANGED <<networksData, tokenCache, fetchPromise, requests, fetchOutcome, calls>>

\* response.json() rejects: the body is no JSON
JsonRejects ==
    /\ fetchPc = "awaitJson"
    /\ EndFetch(FetchBodyEnd(TRUE, networksData, tokenCache))

\* response.json() resolves: lines 53-81 run to the end or to the first throw
JsonResolves(data) ==
    /\ fetchPc = "awaitJson"
    /\ EndFetch(DecodeAndCache(data, tokenCache))

FetchStep ==
    \/ FetchRejects
    \/ FetchNotOk
    \/ FetchOk
    \/ JsonRejects
    \/ \E data \in ResponseData : JsonResolves(data)

(***************************************************************************)
(* Spec: concurrent callers of the registry.                               *)
(***************************************************************************)
SpecAddresses == {ZERO_ADDRESS, TOKEN_A}
SpecChains == {NoChain, "1"}

Next ==
    \/ \E c \in Callers, a \in SpecAddresses, n \in SpecChains : CallResolveToken(c, a, n)
    \/ \E c \in Callers : CallGetNetworksData(c)
    \/ \E c \in Callers : Resume(c)
    \/ FetchStep

Spec == Init /\ [][Next]_vars

(***************************************************************************)
(* SpecLookup: two callers, every spelling of an address.                  *)
(***************************************************************************)
LookupCallers == {1, 2}
LookupAddresses ==
    {<<>>, ZERO_ADDRESS, TOKEN_A, TOKEN_A_CHECKSUM, TOKEN_A_UPPER, SHORT_ADDRESS, NONHEX_ADDRESS}
LookupChains == {NoChain, "1", "2"}

NextLookup ==
    \/ \E c \in LookupCallers, a \in LookupAddresses, n \in LookupChains :
          CallResolveToken(c, a, n)
    \/ \E c \in LookupCallers : Resume(c)
    \/ FetchStep

SpecLookup == Init /\ [][NextLookup]_vars

(***************************************************************************)
(* Claims about the registry.                                              *)
(***************************************************************************)
Returned(c, kind) == calls[c].pc = "returned" /\ calls[c].kind = kind

\* C1: whatever calls are made and however they interleave with the fetch, at
\* most one request is sent to the metadata endpoint, and there is a fetch
\* promise exactly when one has been sent.
C1_SingleFlight ==
    /\ requests <= 1
    /\ (fetchPromise = "null") <=> (requests = 0)

\* one request served a call that arrived while it was in flight and a call
\* that arrived after it had ended
C1_Witness ==
    /\ requests = 1
    /\ fetchPc = "done"
    /\ \E c1, c2 \in Callers :
          /\ calls[c1].via = "join" /\ calls[c1].pc = "returned"
          /\ calls[c2].via = "loaded" /\ calls[c2].pc = "returned"

\* C2: a call looks the cache up only after the body of the fetch has ended,
\* and two resolveToken calls with the same address and chain id have the
\* same result whenever they were issued.
C2_ConsistentResults ==
    /\ \A c \in Callers : calls[c].pc = "returned" => fetchPc = "done"
    /\ \A c1, c2 \in Callers :
          ( /\ Returned(c1, "resolveToken") /\ Returned(c2, "resolveToken")
            /\ calls[c1].address = calls[c2].address
            /\ calls[c1].chainId = calls[c2].chainId )
          => calls[c1].result = calls[c2].result

\* a call issued before the fetch ended and one issued after it both found
\* the same token
C2_Witness ==
    \E c1, c2 \in Callers :
        /\ Returned(c1, "resolveToken") /\ Returned(c2, "resolveToken")
        /\ calls[c1].via \in {"start", "join"} /\ calls[c2].via = "loaded"
        /\ calls[c1].address = TOKEN_A /\ calls[c2].address = TOKEN_A
        /\ calls[c1].chainId = calls[c2].chainId
        /\ calls[c1].result.t = "token"
        /\ Cardinality(DOMAIN tokenCache) > 2

\* C3: after a failed fetch every resolveToken call for an address that is
\* neither empty nor the native sentinel returns not-found.
C3_FailedFetchFindsNothing ==
    fetchOutcome = "failed" =>
        \A c \in Callers :
            (Returned(c, "resolveToken") /\ ~IsNativeOrEmpty(calls[c].address))
            => calls[c].result = NotFound

\* C4: no call is rejected and the fetch promise is never rejected: a call
\* returns token metadata or null (resolveToken) or a list (getNetworksData).
C4_NoRejection ==
    /\ fetchPromise # "rejected"
    /\ \A c \in Callers :
          /\ calls[c].pc # "rejected"
          /\ Returned(c, "resolveToken") => calls[c].result.t \in {"token", "null"}
          /\ Returned(c, "getNetworksData") => calls[c].result.t = "arr"

\* the fetch failed; a call that was waiting on it and a call that came after
\* it have both returned
C4_Witness ==
    /\ fetchOutcome = "failed"
    /\ \E c1, c2 \in Callers :
          /\ Returned(c1, "resolveToken") /\ calls[c1].via \in {"start", "join"}
          /\ Returned(c2, "getNetworksData") /\ calls[c2].via = "loaded"

LowerKey(address) == Str(ToLowerCase(address))
ChainKey(chainId, address) == chainId \o ":" \o LowerKey(address)

\* C5 as stated: for every well-formed address and every network id, an entry
\* cached under the scoped key is what resolveToken returns.
C5_ScopedPrecedence ==
    \A c \in Callers :
        ( /\ Returned(c, "resolveToken")
          /\ IsAddress(calls[c].address)
          /\ calls[c].chainId # NoChain
          /\ ChainKey(calls[c].chainId, calls[c].address) \in DOMAIN tokenCache )
        => calls[c].result
             = Found(tokenCache[ChainKey(calls[c].chainId, calls[c].address)])

\* C5 amended: the same for every well-formed address other than the native
\* sentinel (the all-zero address), which is answered before the cache is read.
C5_ScopedPrecedenceNonNative ==
    \A c \in Callers :
        ( /\ Returned(c, "resolveToken")
          /\ IsAddress(calls[c].address)
          /\ calls[c].address # ZERO_ADDRESS
          /\ calls[c].chainId # NoChain
          /\ ChainKey(calls[c].chainId, calls[c].address) \in DOMAIN tokenCache )
        => calls[c].result
             = Found(tokenCache[ChainKey(calls[c].chainId, calls[c].address)])

\* the scoped entry and the network-agnostic entry of the address differ in
\* symbol and decimals, and the call returned the scoped one
C5_Witness ==
    \E c \in Callers :
        /\ Returned(c, "resolveToken")
        /\ calls[c].address = TOKEN_A_CHECKSUM
        /\ calls[c].chainId = "1"
        /\ ChainKey("1", TOKEN_A) \in DOMAIN tokenCache
        /\ LowerKey(TOKEN_A) \in DOMAIN tokenCache
        /\ tokenCache[ChainKey("1", TOKEN_A)].symbol = "USDC"
        /\ tokenCache[LowerKey(TOKEN_A)].symbol = "DAI"
        /\ calls[c].result.t = "token"
        /\ calls[c].result.info.symbol = "USDC"

C7_CaseInsensitive ==
    \A c1, c2 \in Callers :
        ( /\ Returned(c1, "resolveToken") /\ Returned(c2, "resolveToken")
          /\ MatchesAddressRegex(calls[c1].address)
          /\ calls[c2].address = ToLowerCase(calls[c1].address)
          /\ calls[c1].chainId = calls[c2].chainId )
        => calls[c1].result = calls[c2].result

\* C8: for the empty address and for the all-zero address resolveToken returns
\* the synthesized native metadata (ETH, 18 decimals, null contract) whatever
\* the network id, the cache and the outcome of the fetch.
C8_NativeSynthesized ==
    \A c \in Callers :
        (Returned(c, "resolveToken") /\ calls[c].address \in {<<>>, ZERO_ADDRESS}) =>
            /\ calls[c].result.t = "token"
            /\ calls[c].result.info.symbol = "ETH"
            /\ calls[c].result.info.decimals = 18
            /\ calls[c].result.info.contract = JsNull

\* the cache holds a different token at the all-zero address, under the
\* scoped key of the call and under the address alone; ETH was returned
C8_Witness ==
    \E c \in Callers :
        /\ Returned(c, "resolveToken")
        /\ calls[c].address = ZERO_ADDRESS /\ calls[c].chainId = "2"
        /\ ChainKey("2", ZERO_ADDRESS) \in DOMAIN tokenCache
        /\ tokenCache[LowerKey(ZERO_ADDRESS)].symbol = "ZERO"
        /\ calls[c].result.info.symbol = "ETH"

(***************************************************************************)
(* The formatter (enhancedFormatter.ts, chain-aware revision).             *)
(*                                                                         *)
(* Big integers.  A bigint is a sign and a magnitude; the magnitude is the *)
(* sequence of its decimal digits, most significant first, empty for zero, *)
(* so that no amount is cut to the width of a machine integer.             *)
(***************************************************************************)
JsNum(n) == [t |-> "num", n |-> n]
JsBool(b) == [t |-> "bool", b |-> b]
JsBigInt(neg, mag) == [t |-> "bigint", neg |-> neg, mag |-> mag]
JsObj(fields) == [t |-> "obj", fields |-> fields]

DigitChar(d) == SubSeq(<<"0", "1", "2", "3", "4", "5", "6", "7", "8", "9">>, d + 1, d + 1)[1]

\* the value of a digit of radix up to 16, -1 for any other character
DigitVal(c) ==
    CASE c = "0" -> 0 [] c = "1" -> 1 [] c = "2" -> 2 [] c = "3" -> 3 [] c = "4" -> 4
      [] c = "5" -> 5 [] c = "6" -> 6 [] c = "7" -> 7 [] c = "8" -> 8 [] c = "9" -> 9
      [] c \in {"a", "A"} -> 10 [] c \in {"b", "B"} -> 11 [] c \in {"c", "C"} -> 12
      [] c \in {"d", "D"} -> 13 [] c \in {"e", "E"} -> 14 [] c \in {"f", "F"} -> 15
      [] OTHER -> -1

\* the decimal digits of a natural number, empty for 0
RECURSIVE NatDigits(_)
NatDigits(n) == IF n = 0 THEN <<>> ELSE Append(NatDigits(n \div 10), n % 10)

\* Op(e), with e worked out once
Let(e, Op(_)) == CHOOSE r \in {Op(x) : x \in {e}} : TRUE

\* mag * m + carry on decimal digits; the digits up to the i-th
RECURSIVE MulAddFrom(_, _, _, _)
MulAddFrom(mag, i, m, carry) ==
    IF i = 0 THEN NatDigits(carry)
    ELSE Append(MulAddFrom(mag, i - 1, m, (mag[i] * m + carry) \div 10),
                (mag[i] * m + carry) % 10)

MulAdd(mag, m, carry) == MulAddFrom(mag, Len(mag), m, carry)

\* the magnitude of a literal in the given radix, from acc and the i-th
\* character on; the caller has checked its digits
RECURSIVE ParseRadixFrom(_, _, _, _)
ParseRadixFrom(chars, i, radix, acc) ==
    IF i > Len(chars) THEN acc
    ELSE Let(MulAdd(acc, radix, DigitVal(chars[i])),
             LAMBDA next : ParseRadixFrom(chars, i + 1, radix, next))

ParseRadix(chars, radix) == ParseRadixFrom(chars, 1, radix, <<>>)

AllDigitsOf(chars, radix) ==
    /\ chars # <<>>
    /\ \A i \in 1..Len(chars) : DigitVal(chars[i]) >= 0 /\ DigitVal(chars[i]) < radix

\* the radix a two-character prefix announces, 0 when it is no prefix
PrefixRadix(s) ==
    IF Len(s) >= 2 /\ s[1] = "0"
    THEN CASE s[2] \in {"x", "X"} -> 16
           [] s[2] \in {"o", "O"} -> 8
           [] s[2] \in {"b", "B"} -> 2
           [] OTHER -> 0
    ELSE 0

\* BigInt(string): StringToBigInt of the language.  "" is 0n; a radix prefix
\* takes no sign; anything else is a SyntaxError.  (The inputs of the model
\* hold no white space, which BigInt would trim.)
BigIntOfString(s) ==
    IF s = <<>> THEN [threw |-> FALSE, value |-> JsBigInt(FALSE, <<>>)]
    ELSE IF PrefixRadix(s) # 0
    THEN LET body == SubSeq(s, 3, Len(s))
         IN  IF AllDigitsOf(body, PrefixRadix(s))
             THEN [threw |-> FALSE,
                   value |-> JsBigInt(FALSE, ParseRadix(body, PrefixRadix(s)))]
             ELSE [threw |-> TRUE, value |-> JsUndefined]
    ELSE LET signed == Head(s) \in {"-", "+"}
             body == IF signed THEN Tail(s) ELSE s
             mag == ParseRadix(body, 10)
         IN  IF AllDigitsOf(body, 10)
             THEN [threw |-> FALSE,
                   value |-> JsBigInt(Head(s) = "-" /\ mag # <<>>, mag)]
             ELSE [threw |-> TRUE, value |-> JsUndefined]

\* the characters of the digits of a magnitude
MagChars(mag) == [i \in 1..Len(mag) |-> DigitChar(mag[i])]

\* value.toString() of a bigint or of an integral number
IntegerToString(v) ==
    IF v.t = "bigint"
    THEN (IF v.neg THEN <<"-">> ELSE <<>>) \o (IF v.mag = <<>> THEN <<"0">> ELSE MagChars(v.mag))
    ELSE (IF v.n < 0 THEN <<"-">> ELSE <<>>)
         \o (IF v.n = 0 THEN <<"0">> ELSE MagChars(NatDigits(IF v.n < 0 THEN -v.n ELSE v.n)))

\* String.prototype.padStart(n, '0')
PadStart(s, n) == IF Len(s) >= n THEN s ELSE Rep("0", n - Len(s)) \o s

\* fraction.replace(/(0+)$/, '')
RECURSIVE StripTrailingZeros(_)
StripTrailingZeros(s) ==
    IF s # <<>> /\ s[Len(s)] = "0" THEN StripTrailingZeros(SubSeq(s, 1, Len(s) - 1)) ELSE s

\* viem's formatUnits(value, decimals)
FormatUnits(value, decimals) ==
    LET text == IntegerToString(value)
        negative == Head(text) = "-"
        display == PadStart(IF negative THEN Tail(text) ELSE text, decimals)
        integer == SubSeq(display, 1, Len(display) - decimals)
        fraction == StripTrailingZeros(SubSeq(display, Len(display) - decimals + 1, Len(display)))
    IN  (IF negative THEN <<"-">> ELSE <<>>)
        \o (IF integer = <<>> THEN <<"0">> ELSE integer)
        \o (IF fraction = <<>> THEN <<>> ELSE <<".">> \o fraction)

\* String.prototype.slice(0, n) and slice(-n)
SliceFirst(s, n) == SubSeq(s, 1, IF Len(s) < n THEN Len(s) ELSE n)
SliceLast(s, n) == SubSeq(s, IF Len(s) < n THEN 1 ELSE Len(s) - n + 1, Len(s))

\* the index of the first '.' of a text, 0 when it has none
RECURSIVE IndexOfDot(_, _)
IndexOfDot(s, i) ==
    IF i > Len(s) THEN 0 ELSE IF s[i] = "." THEN i ELSE IndexOfDot(s, i + 1)

(***************************************************************************)
(* Objects, truth values and JSON.stringify(value, null, 2).               *)
(***************************************************************************)
\* an object is the sequence of its <<key, value>> properties, in order
HasKey(v, k) == v.t = "obj" /\ \E i \in 1..Len(v.fields) : v.fields[i][1] = k

\* v[k] of an object, undefined when there is no such property
Get(v, k) ==
    IF HasKey(v, k)
    THEN v.fields[CHOOSE i \in 1..Len(v.fields) : v.fields[i][1] = k][2]
    ELSE JsUndefined

\* ToBoolean
JsTruthy(v) ==
    CASE v.t \in {"null", "undefined"} -> FALSE
      [] v.t = "str" -> v.s # <<>>
      [] v.t = "num" -> v.n # 0
      [] v.t = "bool" -> v.b
      [] v.t = "bigint" -> v.mag # <<>>
      [] OTHER -> TRUE

RECURSIVE JoinStr(_, _)
JoinStr(parts, sep) ==
    IF parts = <<>> THEN ""
    ELSE IF Len(parts) = 1 THEN parts[1]
    ELSE parts[1] \o sep \o JoinStr(Tail(parts), sep)

\* the items of a sequence that satisfy a test, in order
RECURSIVE SelectIndices(_, _, _)
SelectIndices(n, Keep(_), i) ==
    IF i > n THEN <<>>
    ELSE (IF Keep(i) THEN <<i>> ELSE <<>>) \o SelectIndices(n, Keep, i + 1)

\* String(value) of a value that is neither an array nor an object
ToStringValue(v) ==
    CASE v.t = "str" -> Str(v.s)
      [] v.t = "num" -> Str(IntegerToString(v))
      [] v.t = "bigint" -> Str(IntegerToString(v))
      [] v.t = "bool" -> IF v.b THEN "true" ELSE "false"
      [] v.t = "null" -> "null"
      [] v.t = "undefined" -> "undefined"

\* JSON.stringify(v, null, 2) at the given indentation: the text, or undefined
\* (kind "undefined"), or a TypeError for a bigint anywhere in v (kind "throw")
RECURSIVE JsonStringify(_, _)
JsonStringify(v, indent) ==
    LET inner == indent \o "  "
        Text(s) == [kind |-> "text", out |-> s]
    IN  CASE v.t = "null" -> Text("null")
          [] v.t = "undefined" -> [kind |-> "undefined", out |-> ""]
          [] v.t = "str" -> Text("\"" \o Str(v.s) \o "\"")
          [] v.t = "num" -> Text(Str(IntegerToString(v)))
          [] v.t = "bool" -> Text(IF v.b THEN "true" ELSE "false")
          [] v.t = "bigint" -> [kind |-> "throw", out |-> ""]
          [] v.t = "arr" ->
               LET item == [i \in 1..Len(v.items) |-> JsonStringify(v.items[i], inner)]
               IN  IF \E i \in 1..Len(v.items) : item[i].kind = "throw"
                   THEN [kind |-> "throw", out |-> ""]
                   ELSE IF v.items = <<>> THEN Text("[]")
                   ELSE Text("[\n"
                             \o JoinStr([i \in 1..Len(v.items) |->
                                            inner \o (IF item[i].kind = "undefined"
                                                      THEN "null" ELSE item[i].out)], ",\n")
                             \o "\n" \o indent \o "]")
          [] OTHER ->
               LET prop == [i \in 1..Len(v.fields) |-> JsonStringify(v.fields[i][2], inner)]
                   kept == SelectIndices(Len(v.fields), LAMBDA i : prop[i].kind = "text", 1)
               IN  IF \E i \in 1..Len(v.fields) : prop[i].kind = "throw"
                   THEN [kind |-> "throw", out |-> ""]
                   ELSE IF kept = <<>> THEN Text("{}")
                   ELSE Text("{\n"
                             \o JoinStr([j \in 1..Len(kept) |->
                                            inner \o "\"" \o v.fields[kept[j]][1] \o "\": "
                                            \o prop[kept[j]].out], ",\n")
                             \o "\n" \o indent \o "}")

(***************************************************************************)
(* formatTokenAmount.                                                      *)
(***************************************************************************)
\* the result of an async function of the formatter: what it returned, or
\* that it threw, and the resolveToken calls it made
Ret(out, log) == [threw |-> FALSE, out |-> out, log |-> log]
Thrown(log) == [threw |-> TRUE, out |-> "", log |-> log]

\* resolveToken as the formatter calls it: the address is whatever value the
\* formatter found; isAddress of a value that is no string is false
ResolveValue(address, chainId, cache) ==
    IF ~JsTruthy(address) THEN Found(NativeToken)
    ELSE IF address.t = "str" THEN ResolveTokenBody(address.s, chainId, cache)
    ELSE NotFound

LogEntry(address, chainId) == [address |-> address, chainId |-> chainId]

BigNumberText == <<"B", "i", "g", "N", "u", "m", "b", "e", "r">>

IsBigNumberLike(v) ==
    /\ v.t = "obj"
    /\ HasKey(v, "hex") \/ HasKey(v, "_hex")
    /\ HasKey(v, "type") => Get(v, "type") = JsStr(BigNumberText)

CONTRACT_BALANCE == <<"0", "x", "8">> \o Rep("0", 63)

ContractBalanceText == "CONTRACT_BALANCE (use all from previous step)"

\* amount.hex || amount._hex
HexOf(v) == IF JsTruthy(Get(v, "hex")) THEN Get(v, "hex") ELSE Get(v, "_hex")

\* BigInt(value) of a string, an integral number, a boolean or a bigint; a
\* TypeError for the rest
BigIntOf(v) ==
    CASE v.t = "str" -> BigIntOfString(v.s)
      [] v.t = "num" -> [threw |-> FALSE,
                         value |-> JsBigInt(v.n < 0, NatDigits(IF v.n < 0 THEN -v.n ELSE v.n))]
      [] v.t = "bool" -> [threw |-> FALSE,
                          value |-> JsBigInt(FALSE, IF v.b THEN <<1>> ELSE <<>>)]
      [] v.t = "bigint" -> [threw |-> FALSE, value |-> v]
      [] OTHER -> [threw |-> TRUE, value |-> JsUndefined]

bigNumberToBigInt(bn) ==
    IF ~JsTruthy(HexOf(bn)) THEN [threw |-> FALSE, value |-> JsBigInt(FALSE, <<>>)]
    ELSE BigIntOf(HexOf(bn))

\* the outcome of lines 42-66: the amount as an integer ("value"), or the
\* text returned at once ("return"), or an error thrown ("throw")
ReturnsText(out) == [kind |-> "return", out |-> out, value |-> JsUndefined]
ThrowsError == [kind |-> "throw", out |-> "", value |-> JsUndefined]
Converted(value) == [kind |-> "value", out |-> "", value |-> value]

\* lines 54 and 59-63, given what BigInt made of the amount
FromRecord(parsed) == IF parsed.threw THEN ThrowsError ELSE Converted(parsed.value)
FromString(amount, parsed) ==
    IF parsed.threw THEN ReturnsText(Str(amount.s)) ELSE Converted(parsed.value)

AmountToBigInt(amount) ==
    IF IsBigNumberLike(amount)
    THEN IF HexOf(amount) = JsStr(CONTRACT_BALANCE) THEN ReturnsText(ContractBalanceText)
         ELSE FromRecord(bigNumberToBigInt(amount))
    ELSE IF amount.t = "str"
    THEN IF amount.s = CONTRACT_BALANCE THEN ReturnsText(ContractBalanceText)
         ELSE FromString(amount, BigIntOfString(amount.s))
    ELSE Converted(amount)

MaxShownDecimals == 6

\* formatted.split('.'), given the index of the point (0 for none)
SplitAtDot(formatted, dot) ==
    [whole |-> IF dot = 0 THEN formatted ELSE SubSeq(formatted, 1, dot - 1),
     decimal |-> IF dot = 0 THEN <<>> ELSE SubSeq(formatted, dot + 1, Len(formatted))]

\* line 79
DisplayAmount(wholePart, limitedDecimal) ==
    IF limitedDecimal # <<>> THEN Str(wholePart) \o "." \o Str(limitedDecimal)
    ELSE Str(wholePart)

\* line 78 without the cut
KeepAllDecimals(parts) == DisplayAmount(parts.whole, parts.decimal)

\* lines 73-79
LimitDecimals(parts) == DisplayAmount(parts.whole, SliceFirst(parts.decimal, MaxShownDecimals))
DisplayOf(formatted) == LimitDecimals(SplitAtDot(formatted, IndexOfDot(formatted, 1)))

\* lines 72-81
ScaledWithSymbol(value, info) ==
    DisplayOf(FormatUnits(value, info.decimals)) \o " " \o info.symbol

DefaultDecimals == 18

\* lines 85-87 scaling by the six decimals of the cut
ScaledBySix(value) == Str(FormatUnits(value, MaxShownDecimals)) \o " tokens"

\* lines 85-87
ScaledGeneric(value) == Str(FormatUnits(value, DefaultDecimals)) \o " tokens"

\* lines 68-87.  formatUnits takes the integers the conversion yields: a
\* bigint, or a number passed through as it came (the amounts of the model
\* are integral)
ScaleAmount(value, tokenAddress, token, log) ==
    IF value.t \notin {"bigint", "num"} THEN Thrown(log)
    ELSE IF JsTruthy(tokenAddress) /\ token.t = "token"
    THEN Ret(ScaledWithSymbol(value, token.info), log)
    ELSE Ret(ScaledGeneric(value), log)

TokenLog(tokenAddress, chainId) ==
    IF JsTruthy(tokenAddress) THEN <<LogEntry(tokenAddress, chainId)>> ELSE <<>>

AfterConversion(converted, tokenAddress, chainId, cache) ==
    CASE converted.kind = "return" -> Ret(converted.out, <<>>)
      [] converted.kind = "throw" -> Thrown(<<>>)
      [] OTHER -> ScaleAmount(converted.value, tokenAddress,
                              ResolveValue(tokenAddress, chainId, cache),
                              TokenLog(tokenAddress, chainId))

formatTokenAmount(amount, tokenAddress, chainId, cache) ==
    AfterConversion(AmountToBigInt(amount), tokenAddress, chainId, cache)

(***************************************************************************)
(* The path formatters and formatSwapObject.                               *)
(***************************************************************************)
\* the arrow between the tokens of a path (U+2192), written in ASCII
Arrow == "->"

\* `${s.slice(0, 6)}...${s.slice(-4)}` of a string
Truncated(s) == Str(SliceFirst(s, 6)) \o "..." \o Str(SliceLast(s, 4))

\* token?.symbol || fallback
SymbolOr(token, fallback) ==
    IF token.t = "token" /\ token.info.symbol # "" THEN token.info.symbol ELSE fallback

\* whether `token?.symbol || <text built with v.slice>` throws: the text is
\* built only when there is no symbol, and only a string has slice
SliceThrows(token, v) == SymbolOr(token, "") = "" /\ v.t # "str"

\* n / 10000 as the language prints it, for an integer n of up to eight digits
FeePercent(n) ==
    LET whole == n \div 10000
        fraction == StripTrailingZeros(PadStart(MagChars(NatDigits(n % 10000)), 4))
    IN  Str(IntegerToString(JsNum(whole)))
        \o (IF fraction = <<>> THEN "" ELSE "." \o Str(fraction))

\* hop.fee ? ` (${hop.fee / 10000}%)` : ''   (the fees of the model are
\* numbers that are not negative, or absent)
FeeText(fee) == IF JsTruthy(fee) /\ fee.t = "num" THEN " (" \o FeePercent(fee.n) \o "%)" ELSE ""

RECURSIVE formatV2PathFrom(_, _, _, _)
formatV2PathFrom(path, i, chainId, cache) ==
    IF i > Len(path) THEN <<>>
    ELSE <<SymbolOr(ResolveValue(path[i], chainId, cache), Truncated(path[i].s))>>
         \o formatV2PathFrom(path, i + 1, chainId, cache)

\* line 197 joining with the arrow alone
JoinedByArrowOnly(path, chainId, cache) ==
    Ret(JoinStr(formatV2PathFrom(path, 1, chainId, cache), Arrow),
        [i \in 1..Len(path) |-> LogEntry(path[i], chainId)])

\* lines 192-193 resolving the hops without the network id
UnscopedV2Path(path, chainId, cache) ==
    Ret(JoinStr(formatV2PathFrom(path, 1, NoChain, cache), " " \o Arrow \o " "),
        [i \in 1..Len(path) |-> LogEntry(path[i], NoChain)])

formatV2Path(path, chainId, cache) ==
    Ret(JoinStr(formatV2PathFrom(path, 1, chainId, cache), " " \o Arrow \o " "),
        [i \in 1..Len(path) |-> LogEntry(path[i], chainId)])

\* the index of the first hop whose tokenOut text cannot be built, 0 if none
FirstBadHop(path, chainId, cache) ==
    LET bad == {i \in 1..Len(path) :
                   SliceThrows(ResolveValue(Get(path[i], "tokenOut"), chainId, cache),
                               Get(path[i], "tokenOut"))}
    IN  IF bad = {} THEN 0 ELSE CHOOSE i \in bad : \A j \in bad : i <= j

formatV3Path(path, chainId, cache) ==
    LET tokenIn == Get(path[1], "tokenIn")
        firstToken == ResolveValue(tokenIn, chainId, cache)
        hopText(i) ==
            LET tokenOut == Get(path[i], "tokenOut")
            IN  Arrow \o FeeText(Get(path[i], "fee")) \o " "
                \o SymbolOr(ResolveValue(tokenOut, chainId, cache),
                            IF tokenOut.t = "str" THEN Truncated(tokenOut.s) ELSE "")
        hopLog(n) == [i \in 1..n |-> LogEntry(Get(path[i], "tokenOut"), chainId)]
        bad == FirstBadHop(path, chainId, cache)
    IN  IF path = <<>> THEN Ret("", <<>>)
        ELSE IF SliceThrows(firstToken, tokenIn) THEN Thrown(<<LogEntry(tokenIn, chainId)>>)
        ELSE IF bad # 0 THEN Thrown(<<LogEntry(tokenIn, chainId)>> \o hopLog(bad))
        ELSE Ret(JoinStr(<<SymbolOr(firstToken,
                                    IF tokenIn.t = "str" THEN Truncated(tokenIn.s) ELSE "")>>
                         \o [i \in 1..Len(path) |-> hopText(i)], " "),
                 <<LogEntry(tokenIn, chainId)>> \o hopLog(Len(path)))

\* hop.intermediateCurrency of a path item, a TypeError for null and undefined
RECURSIVE formatV4PathFrom(_, _, _, _)
formatV4PathFrom(path, i, chainId, cache) ==
    IF i > Len(path) THEN Ret(<<>>, <<>>)
    ELSE IF path[i].t \in {"null", "undefined"} THEN Thrown(<<>>)
    ELSE LET currency == Get(path[i], "intermediateCurrency")
             rest == formatV4PathFrom(path, i + 1, chainId, cache)
             step == Arrow \o " " \o SymbolOr(ResolveValue(currency, chainId, cache), "Unknown")
                     \o FeeText(Get(path[i], "fee"))
         IN  IF ~JsTruthy(currency) THEN rest
             ELSE IF rest.threw THEN Thrown(<<LogEntry(currency, chainId)>> \o rest.log)
             ELSE Ret(<<step>> \o rest.out, <<LogEntry(currency, chainId)>> \o rest.log)

formatV4Path(path, chainId, cache) ==
    LET steps == formatV4PathFrom(path, 1, chainId, cache)
    IN  IF steps.threw THEN steps ELSE Ret(JoinStr(steps.out, " "), steps.log)

\* one section of formatSwapObject: it runs when nothing threw before it
Then(st, Section(_)) == IF st.threw THEN st ELSE Section(st)

Push(st, line, log) == Ret(Append(st.out, line), st.log \o log)

NativeEthText == "Native ETH"

\* lines 257-262 and 265-270
CurrencyLine(st, label, currency, chainId, cache) ==
    LET token == ResolveValue(currency, chainId, cache)
        log == <<LogEntry(currency, chainId)>>
    IN  IF ~JsTruthy(currency) THEN st
        ELSE IF currency.t # "str" THEN Thrown(st.log \o log)
        ELSE Push(st, label \o SymbolOr(token,
                                        IF currency.s = ZERO_ADDRESS THEN NativeEthText
                                        ELSE Truncated(currency.s)), log)

\* lines 274-277, 280-283 and 286-289
PushAmount(st, label, formatted) ==
    IF formatted.threw THEN Thrown(st.log \o formatted.log)
    ELSE Push(st, label \o formatted.out, formatted.log)

AmountLine(st, label, amount, tokenAddress, chainId, cache) ==
    IF ~JsTruthy(amount) THEN st
    ELSE PushAmount(st, label, formatTokenAmount(amount, tokenAddress, chainId, cache))

\* lines 292-297
PushPath(st, pathDesc) ==
    IF pathDesc.threw THEN Thrown(st.log \o pathDesc.log)
    ELSE IF pathDesc.out = "" THEN Ret(st.out, st.log \o pathDesc.log)
    ELSE Push(st, "Path: " \o pathDesc.out, pathDesc.log)

PathLine(st, path, chainId, cache) ==
    IF path.t # "arr" THEN st ELSE PushPath(st, formatV4Path(path.items, chainId, cache))

\* lines 251-254: obj.path[0].intermediateCurrency, a TypeError when the
\* first item is null or undefined
HasHops(path) == path.t = "arr" /\ path.items # <<>>
FirstHopThrows(path) == HasHops(path) /\ path.items[1].t \in {"null", "undefined"}
FirstHopCurrency(path) ==
    IF HasHops(path) /\ ~FirstHopThrows(path)
    THEN Get(path.items[1], "intermediateCurrency") ELSE JsUndefined

\* lines 253 and 270 with the first hop of the path winning over currencyOut
PathFirstOutput(currencyOut, fromPath) ==
    IF JsTruthy(fromPath) THEN fromPath ELSE currencyOut

\* outputToken || obj.currencyOut, after line 270
OutputAddress(currencyOut, fromPath) ==
    IF JsTruthy(currencyOut) THEN currencyOut
    ELSE IF JsTruthy(fromPath) THEN fromPath
    ELSE currencyOut

\* lines 299-303
SwapText(st) ==
    IF st.threw THEN Ret("Error formatting swap details", st.log)
    ELSE IF st.out = <<>> THEN Ret("Swap Details", st.log)
    ELSE Ret(JoinStr(st.out, "\n"), st.log)

SwapSections(obj, path, currencyIn, currencyOut, outAddress, chainId, cache) ==
    Then(Then(Then(Then(Then(Then(
        IF FirstHopThrows(path) THEN Thrown(<<>>) ELSE Ret(<<>>, <<>>),
        LAMBDA st : CurrencyLine(st, "From: ", currencyIn, chainId, cache)),
        LAMBDA st : CurrencyLine(st, "To: ", currencyOut, chainId, cache)),
        LAMBDA st : AmountLine(st, "Amount In: ", Get(obj, "amountIn"), currencyIn,
                               chainId, cache)),
        LAMBDA st : AmountLine(st, "Amount Out: ", Get(obj, "amountOut"), outAddress,
                               chainId, cache)),
        LAMBDA st : AmountLine(st, "Min Out: ", Get(obj, "amountOutMinimum"), outAddress,
                               chainId, cache)),
        LAMBDA st : PathLine(st, path, chainId, cache))

formatSwapObject(obj, chainId, cache) ==
    SwapText(SwapSections(obj, Get(obj, "path"), Get(obj, "currencyIn"),
                          Get(obj, "currencyOut"),
                          OutputAddress(Get(obj, "currencyOut"),
                                        FirstHopCurrency(Get(obj, "path"))),
                          chainId, cache))

(***************************************************************************)
(* formatValueEnhanced (lines 93-184).                                     *)
(***************************************************************************)
\* what the promise of formatValueEnhanced settles to, and the resolveToken
\* calls made on the way
Formatted(formatted, raw, log) ==
    [rejected |-> FALSE, formatted |-> formatted, raw |-> raw, log |-> log]
Rejected == [rejected |-> TRUE, formatted |-> "", raw |-> "", log |-> <<>>]

ErrorFormattingValue == "Error formatting value"

Every(items, Test(_)) == \A i \in 1..Len(items) : Test(items[i])

AddressLength == 42

\* typeof item === 'string' && item.startsWith('0x') && item.length === 42
LooksLikeAddress(v) == v.t = "str" /\ StartsWith0x(v.s) /\ Len(v.s) = AddressLength

IsNameValueItem(v) == HasKey(v, "name") /\ HasKey(v, "value")
IsV3Hop(v) == HasKey(v, "tokenIn") /\ HasKey(v, "tokenOut")
IsV4Hop(v) == HasKey(v, "intermediateCurrency")
IsSwapLike(v) == HasKey(v, "currencyIn") \/ HasKey(v, "currencyOut") \/ HasKey(v, "path")

\* the result of an awaited helper, inside the try of formatValueEnhanced
Guarded(helper, raw) ==
    IF helper.threw THEN Formatted(ErrorFormattingValue, raw, helper.log)
    ELSE Formatted(helper.out, raw, helper.log)

\* lines 166-175 with the raw text taken from the resolved token
RawFromToken(value, tokenInfo, chainId) ==
    Formatted(IF tokenInfo.t = "token"
              THEN tokenInfo.info.symbol \o " (" \o Truncated(value.s) \o ")"
              ELSE Truncated(value.s),
              IF tokenInfo.t = "token" THEN tokenInfo.info.symbol ELSE Str(value.s),
              <<LogEntry(value, chainId)>>)

\* lines 166-175 showing the symbol alone
SymbolOnlyText(value, tokenInfo, chainId) ==
    Formatted(IF tokenInfo.t = "token" THEN tokenInfo.info.symbol ELSE Truncated(value.s),
              Str(value.s), <<LogEntry(value, chainId)>>)

\* lines 164-176
AddressText(value, tokenInfo, chainId) ==
    Formatted(IF tokenInfo.t = "token"
              THEN tokenInfo.info.symbol \o " (" \o Truncated(value.s) \o ")"
              ELSE Truncated(value.s),
              Str(value.s), <<LogEntry(value, chainId)>>)

FormatAddress(value, chainId, cache) ==
    AddressText(value, ResolveValue(value, chainId, cache), chainId)

\* the logs of the first n items, one after the other
RECURSIVE FlatLog(_, _)
FlatLog(itemResult, n) ==
    IF n = 0 THEN <<>> ELSE FlatLog(itemResult, n - 1) \o itemResult[n].log

\* lines 121-126, given the results of the items; an item whose promise is
\* rejected ends the loop in the catch
NameValueText(items, itemResult, failed, raw) ==
    IF failed # {}
    THEN Formatted(ErrorFormattingValue, raw,
                   FlatLog(itemResult, CHOOSE i \in failed : \A j \in failed : i <= j))
    ELSE Formatted(JoinStr([i \in 1..Len(items) |->
                               ToStringValue(Get(items[i], "name")) \o ": "
                               \o itemResult[i].formatted], "\n"),
                   raw, FlatLog(itemResult, Len(items)))

FailedItems(itemResult) == {i \in DOMAIN itemResult : itemResult[i].rejected}

NameValueResults(items, itemResult, raw) ==
    NameValueText(items, itemResult, FailedItems(itemResult), raw)

RECURSIVE formatValueEnhanced(_, _, _, _)
\* line 123 handing the value of the first item on as the contextual token
SiblingContextList(items, raw, chainId, cache) ==
    NameValueResults(items,
                     [i \in 1..Len(items) |->
                         formatValueEnhanced(Get(items[i], "value"), chainId,
                                             Get(items[1], "value"), cache)],
                     raw)

\* lines 120-127: the items are formatted in turn, without contextual token
FormatNameValueList(items, raw, chainId, cache) ==
    NameValueResults(items,
                     [i \in 1..Len(items) |->
                         formatValueEnhanced(Get(items[i], "value"), chainId, JsUndefined, cache)],
                     raw)

\* lines 114-148
FormatArray(items, raw, chainId, cache) ==
    IF items = <<>> THEN Formatted("[]", "[]", <<>>)
    ELSE IF Every(items, IsNameValueItem) THEN FormatNameValueList(items, raw, chainId, cache)
    ELSE IF Every(items, LooksLikeAddress) THEN Guarded(formatV2Path(items, chainId, cache), raw)
    ELSE IF Every(items, IsV3Hop) THEN Guarded(formatV3Path(items, chainId, cache), raw)
    ELSE IF Every(items, IsV4Hop) THEN Guarded(formatV4Path(items, chainId, cache), raw)
    ELSE Formatted("Array with " \o Str(IntegerToString(JsNum(Len(items)))) \o " items",
                   raw, <<>>)

\* lines 101-183
FormatWithRaw(value, raw, chainId, contextToken, cache) ==
    IF value.t \in {"null", "undefined"} THEN Formatted("null", "null", <<>>)
    ELSE IF IsBigNumberLike(value)
    THEN Guarded(formatTokenAmount(value, contextToken, chainId, cache), raw)
    ELSE IF value.t = "arr" THEN FormatArray(value.items, raw, chainId, cache)
    ELSE IF value.t = "obj"
    THEN IF IsSwapLike(value) THEN Guarded(formatSwapObject(value, chainId, cache), raw)
         ELSE Formatted("Object", raw, <<>>)
    ELSE IF LooksLikeAddress(value) THEN FormatAddress(value, chainId, cache)
    ELSE Formatted(ToStringValue(value), ToStringValue(value), <<>>)

\* line 99, outside the try: a TypeError rejects the promise of the call
AfterStringify(value, json, chainId, contextToken, cache) ==
    IF json.kind = "throw" THEN Rejected
    ELSE FormatWithRaw(value, IF json.kind = "text" THEN json.out ELSE "undefined",
                       chainId, contextToken, cache)

formatValueEnhanced(value, chainId, contextToken, cache) ==
    AfterStringify(value, JsonStringify(value, ""), chainId, contextToken, cache)

(***************************************************************************)
(* SpecFmt: a component formats decoded parameter values while the         *)
(* registry loads.                                                         *)
(***************************************************************************)
BigNumberRecord(hex) == JsObj(<< <<"type", JsStr(BigNumberText)>>, <<"hex", JsStr(hex)>> >>)
LegacyBigNumberRecord(hex) == JsObj(<< <<"_hex", JsStr(hex)>> >>)

\* the encodings of the integer whose hex digits are h
DecimalString(h) == JsStr(MagChars(ParseRadix(h, 16)))
NativeBigInt(h) == JsBigInt(FALSE, ParseRadix(h, 16))
HexLiteral(h) == <<"0", "x">> \o h
Encodings(h) ==
    {DecimalString(h), NativeBigInt(h), BigNumberRecord(HexLiteral(h)),
     LegacyBigNumberRecord(HexLiteral(h))}

\* 123, 1500000 and 10^18
AmountHexPool ==
    {<<"7", "b">>, <<"1", "6", "e", "3", "6", "0">>,
     <<"d", "e", "0", "b", "6", "b", "3", "a", "7", "6", "4">> \o Rep("0", 4)}

\* 1999999999999999999: nines beyond the sixth decimal at 18 decimals
NINES_AMOUNT ==
    <<"1", "b", "c", "1", "6", "d", "6", "7", "4", "e", "c", "7">> \o Rep("f", 4)

SwapDescriptor(currencyIn, amountIn) ==
    JsObj(<< <<"currencyIn", currencyIn>>, <<"amountIn", amountIn>> >>)

\* the full-balance sentinel as a parameter value and as an amount of a swap
TopLevelSentinels ==
    {JsStr(CONTRACT_BALANCE), BigNumberRecord(CONTRACT_BALANCE),
     LegacyBigNumberRecord(CONTRACT_BALANCE)}
SentinelSwaps == {SwapDescriptor(JsStr(TOKEN_A), amount) : amount \in TopLevelSentinels}

\* address paths: every hop listed, and one hop that no network lists
ResolvablePath == JsArr(<<JsStr(TOKEN_A), JsStr(ZERO_ADDRESS), JsStr(TOKEN_A_CHECKSUM)>>)
MixedPath == JsArr(<<JsStr(TOKEN_B), JsStr(TOKEN_A)>>)
AddressPaths == {ResolvablePath, MixedPath, JsArr(<<JsStr(TOKEN_A), JsStr(ZERO_ADDRESS)>>)}

\* [{tokenIn: A, tokenOut: B, fee: 3000}]
FeeTierHop(tokenIn, tokenOut, fee) ==
    JsObj(<< <<"tokenIn", JsStr(tokenIn)>>, <<"tokenOut", JsStr(tokenOut)>>,
             <<"fee", JsNum(fee)>> >>)
OneHopFeePath == JsArr(<<FeeTierHop(TOKEN_A, ZERO_ADDRESS, 3000)>>)

\* swap descriptors: every field, an empty path, amounts of zero
SmallAmount == BigNumberRecord(HexLiteral(<<"7", "b">>))
CurrencyHop(currency) == JsObj(<< <<"intermediateCurrency", JsStr(currency)>> >>)
FullSwap ==
    JsObj(<< <<"currencyIn", JsStr(TOKEN_A)>>, <<"currencyOut", JsStr(ZERO_ADDRESS)>>,
             <<"amountIn", SmallAmount>>, <<"amountOut", SmallAmount>>,
             <<"amountOutMinimum", SmallAmount>>,
             <<"path", JsArr(<<CurrencyHop(TOKEN_A)>>)>> >>)
EmptyPathSwap == JsObj(<< <<"path", JsArr(<<>>)>> >>)
ZeroRecordSwap == SwapDescriptor(JsStr(TOKEN_A), BigNumberRecord(HexLiteral(<<"0">>)))
ZeroBigIntSwap == SwapDescriptor(JsStr(TOKEN_A), JsBigInt(FALSE, <<>>))
LineSwaps == {FullSwap, EmptyPathSwap, ZeroRecordSwap, ZeroBigIntSwap}

\* a record whose hex field is no number
MalformedRecord == BigNumberRecord(<<"0", "x", "z">>)

\* swap descriptors whose output amounts take their token from currencyOut
\* or, without one, from the first hop of the path
OneUnit == BigNumberRecord(HexLiteral(<<"d", "e", "0", "b", "6", "b", "3", "a", "7", "6", "4">> \o Rep("0", 4)))
PathOutputSwap ==
    JsObj(<< <<"currencyIn", JsStr(TOKEN_A)>>, <<"amountOut", OneUnit>>,
             <<"amountOutMinimum", OneUnit>>,
             <<"path", JsArr(<<CurrencyHop(ZERO_ADDRESS), CurrencyHop(TOKEN_A)>>)>> >>)
ExplicitOutputSwap ==
    JsObj(<< <<"currencyIn", JsStr(TOKEN_A)>>, <<"currencyOut", JsStr(ZERO_ADDRESS)>>,
             <<"amountOut", OneUnit>>, <<"amountOutMinimum", OneUnit>>,
             <<"path", JsArr(<<CurrencyHop(TOKEN_A)>>)>> >>)
OutputSwaps == {PathOutputSwap, ExplicitOutputSwap}

\* amounts that are no integer, alone and as the amountIn of a swap
NonNumericText == <<"a", "b", "c">>
MalformedAmounts == {JsStr(NonNumericText), MalformedRecord}
MalformedSwaps == {SwapDescriptor(JsStr(TOKEN_A), amount) : amount \in MalformedAmounts}

\* { name, value } of a decoded parameter
Param(name, value) == JsObj(<< <<"name", JsStr(name)>>, <<"value", value>> >>)

\* a named-field list with a currency and an amount, and one whose elements
\* are a path and a swap descriptor
CurrencyInName == <<"c", "u", "r", "r", "e", "n", "c", "y", "I", "n">>
AmountInName == <<"a", "m", "o", "u", "n", "t", "I", "n">>
PathName == <<"p", "a", "t", "h">>
SwapName == <<"s", "w", "a", "p">>
FlatList == JsArr(<<Param(CurrencyInName, JsStr(TOKEN_A)), Param(AmountInName, SmallAmount)>>)
NestedList == JsArr(<<Param(PathName, MixedPath), Param(SwapName, PathOutputSwap)>>)
NamedLists == {FlatList, NestedList}

\* an intermediate-currency path on its own
CurrencyPath == JsArr(<<CurrencyHop(TOKEN_A), CurrencyHop(TOKEN_B)>>)

FmtValues ==
    TopLevelSentinels \cup SentinelSwaps
        \cup UNION {Encodings(h) : h \in AmountHexPool}
        \cup {JsNull, JsNum(123), JsBool(TRUE), JsStr(TOKEN_A)}
        \cup AddressPaths \cup {OneHopFeePath} \cup LineSwaps \cup MalformedAmounts
        \cup OutputSwaps \cup MalformedSwaps \cup NamedLists \cup {CurrencyPath}
FmtChains == {NoChain, "1"}
FmtContextTokens == {JsUndefined, JsStr(TOKEN_A)}
FmtCallers == {1}

FormatResult(r) == [t |-> "formatted", formatted |-> r.formatted, raw |-> r.raw, log |-> r.log]

FmtRequests ==
    {<<v, n, t>> : v \in FmtValues, n \in FmtChains, t \in FmtContextTokens}

\* What a call does before its first await depends on its arguments alone:
\* nothing is read from the cache before the first resolveToken.  The cases
\* are worked out once for the requests of the model.
ThrowsAtStringify(q) == JsonStringify(q[1], "").kind = "throw"
CallsResolveToken(q) == formatValueEnhanced(q[1], q[2], q[3], << >>).log # <<>>

RejectedRequests == {q \in FmtRequests : ThrowsAtStringify(q)}
AwaitingRequests == {q \in FmtRequests : ~ThrowsAtStringify(q) /\ CallsResolveToken(q)}
DirectRequests == FmtRequests \ (RejectedRequests \cup AwaitingRequests)

\* line 99 throws: the promise of the call is rejected
FormatRejects(c, value, chainId, contextToken) ==
    /\ calls[c].pc \in {"idle", "returned"}
    /\ <<value, chainId, contextToken>> \in RejectedRequests
    /\ calls' = [calls EXCEPT ![c] =
                    [pc |-> "rejected", kind |-> "formatValueEnhanced", address |-> <<>>,
                     chainId |-> chainId, value |-> value, contextToken |-> contextToken,
                     via |-> "none", result |-> NoResult]]
    /\ UNCHANGED <<networksData, tokenCache, fetchPromise, fetchPc, requests, fetchOutcome>>

\* the call runs to its return without asking the registry; its promise is
\* resolved, and the caller goes on in a later step
FormatRuns(c, value, chainId, contextToken) ==
    /\ calls[c].pc \in {"idle", "returned"}
    /\ <<value, chainId, contextToken>> \in DirectRequests
    /\ calls' = [calls EXCEPT ![c] =
                    [pc |-> "ready", kind |-> "formatValueEnhanced", address |-> <<>>,
                     chainId |-> chainId, value |-> value, contextToken |-> contextToken,
                     via |-> "none", result |-> NoResult]]
    /\ UNCHANGED <<networksData, tokenCache, fetchPromise, fetchPc, requests, fetchOutcome>>

\* the call stops at the await of its first resolveToken
FormatAwaits(c, value, chainId, contextToken) ==
    /\ <<value, chainId, contextToken>> \in AwaitingRequests
    /\ Await(c, "formatValueEnhanced", <<>>, chainId, value, contextToken)

CallFormatValueEnhanced(c, value, chainId, contextToken) ==
    \/ FormatRejects(c, value, chainId, contextToken)
    \/ FormatRuns(c, value, chainId, contextToken)
    \/ FormatAwaits(c, value, chainId, contextToken)

\* The call settles.  Once the data is loaded every later resolveToken of the
\* call finds it loaded and reads the same cache; fetchPromise is never
\* rejected (C4_NoRejection), so the await only ever continues.
ReturnFormatted(c) ==
    /\ calls[c].kind = "formatValueEnhanced"
    /\ \/ calls[c].pc = "ready"
       \/ calls[c].pc = "awaiting" /\ fetchPromise = "fulfilled"
    /\ calls' = [calls EXCEPT ![c] =
                    [@ EXCEPT !.pc = "returned",
                              !.result = FormatResult(formatValueEnhanced(calls[c].value,
                                            calls[c].chainId, calls[c].contextToken,
                                            tokenCache))]]
    /\ UNCHANGED <<networksData, tokenCache, fetchPromise, fetchPc, requests, fetchOutcome>>

NextFmt ==
    \/ \E c \in FmtCallers, v \in FmtValues, n \in FmtChains, t \in FmtContextTokens :
          CallFormatValueEnhanced(c, v, n, t)
    \/ \E c \in FmtCallers : ReturnFormatted(c)
    \/ FetchStep

SpecFmt == Init /\ [][NextFmt]_vars

\* a formatter call that has settled
Settled(c) == calls[c].kind = "formatValueEnhanced" /\ calls[c].pc \in {"returned", "rejected"}

\* the texts a display line may follow in the swaps of the model
FromLines ==
    {"From: " \o symbol \o "\n" : symbol \in {"USDC", "DAI", Truncated(TOKEN_A)}}

\* C9: the full-balance sentinel, as a bare string or as a record with hex or
\* _hex, given as a parameter value or as the amount of a swap descriptor,
\* always renders as the full-balance marker.
C9_SentinelRendersMarker ==
    \A c \in FmtCallers :
        Settled(c) =>
            /\ calls[c].value \in TopLevelSentinels =>
                  /\ calls[c].pc = "returned"
                  /\ calls[c].result.formatted = ContractBalanceText
            /\ calls[c].value \in SentinelSwaps =>
                  /\ calls[c].pc = "returned"
                  /\ \E head \in FromLines :
                        calls[c].result.formatted
                            = head \o "Amount In: " \o ContractBalanceText

\* the display of a value in the context of a settled call, "" with no display
DisplayIn(c, value) ==
    LET r == formatValueEnhanced(value, calls[c].chainId, calls[c].contextToken, tokenCache)
    IN  IF r.rejected THEN [shown |-> FALSE, text |-> ""] ELSE [shown |-> TRUE, text |-> r.formatted]

\* C10: with the registry loaded, every encoding of one integer (decimal
\* string, native big integer, record with hex or _hex) gets the display that
\* the call got for its encoding, under the same network id and contextual
\* currency.
C10_EncodingEquivalence ==
    \A c \in FmtCallers : \A h \in AmountHexPool :
        (Settled(c) /\ fetchPromise = "fulfilled" /\ calls[c].value \in Encodings(h)) =>
            /\ calls[c].pc = "returned"
            /\ \A other \in Encodings(h) :
                  DisplayIn(c, other) = [shown |-> TRUE, text |-> calls[c].result.formatted]

(***************************************************************************)
(* SpecAmount: formatTokenAmount called with an amount, the address of its *)
(* token and a network id, while the registry loads.                       *)
(***************************************************************************)
AmountHexes == AmountHexPool \cup {NINES_AMOUNT}
AmountValues == UNION {Encodings(h) : h \in AmountHexes} \cup {JsStr(CONTRACT_BALANCE)}
AmountTokens == {JsUndefined, JsStr(TOKEN_A), JsStr(TOKEN_B), JsStr(SHORT_ADDRESS)}
AmountChains == {NoChain, "1"}
AmountCallers == {1}

AmountRequests ==
    {<<a, t, n>> : a \in AmountValues, t \in AmountTokens, n \in AmountChains}

\* line 69-70: the call reaches resolveToken
AmountCallsResolveToken(q) == formatTokenAmount(q[1], q[2], q[3], << >>).log # <<>>
AmountAwaitingRequests == {q \in AmountRequests : AmountCallsResolveToken(q)}

AmountResult(r) == [t |-> "text", out |-> r.out]

\* the call runs to its return without asking the registry
AmountRuns(c, amount, tokenAddress, chainId) ==
    /\ calls[c].pc \in {"idle", "returned"}
    /\ <<amount, tokenAddress, chainId>> \in AmountRequests \ AmountAwaitingRequests
    /\ calls' = [calls EXCEPT ![c] =
                    [pc |-> "ready", kind |-> "formatTokenAmount", address |-> <<>>,
                     chainId |-> chainId, value |-> amount, contextToken |-> tokenAddress,
                     via |-> "none", result |-> NoResult]]
    /\ UNCHANGED <<networksData, tokenCache, fetchPromise, fetchPc, requests, fetchOutcome>>

\* the call stops at the await of resolveToken (line 70)
AmountAwaits(c, amount, tokenAddress, chainId) ==
    /\ <<amount, tokenAddress, chainId>> \in AmountAwaitingRequests
    /\ Await(c, "formatTokenAmount", <<>>, chainId, amount, tokenAddress)

\* the promise of the call settles: fulfilled with the text, or rejected
ReturnAmount(c) ==
    /\ calls[c].kind = "formatTokenAmount"
    /\ \/ calls[c].pc = "ready"
       \/ calls[c].pc = "awaiting" /\ fetchPromise = "fulfilled"
    /\ calls' = [calls EXCEPT ![c] =
                    [@ EXCEPT !.pc = IF formatTokenAmount(calls[c].value, calls[c].contextToken,
                                                          calls[c].chainId, tokenCache).threw
                                     THEN "rejected" ELSE "returned",
                              !.result = AmountResult(formatTokenAmount(calls[c].value,
                                            calls[c].contextToken, calls[c].chainId,
                                            tokenCache))]]
    /\ UNCHANGED <<networksData, tokenCache, fetchPromise, fetchPc, requests, fetchOutcome>>

NextAmount ==
    \/ \E c \in AmountCallers, a \in AmountValues, t \in AmountTokens, n \in AmountChains :
          AmountRuns(c, a, t, n)
    \/ \E c \in AmountCallers, a \in AmountValues, t \in AmountTokens, n \in AmountChains :
          AmountAwaits(c, a, t, n)
    \/ \E c \in AmountCallers : ReturnAmount(c)
    \/ FetchStep

SpecAmount == Init /\ [][NextAmount]_vars

\* a formatTokenAmount call that has settled
AmountSettled(c) == calls[c].kind = "formatTokenAmount" /\ calls[c].pc \in {"returned", "rejected"}

\* the digits of floor(n * 10^places / 10^d), n given by its digits
FloorScaled(mag, d, places) ==
    IF d >= places
    THEN IF Len(mag) <= d - places THEN <<>> ELSE SubSeq(mag, 1, Len(mag) - (d - places))
    ELSE IF mag = <<>> THEN <<>> ELSE mag \o [i \in 1..(places - d) |-> 0]

\* the texts that write q / 10^places followed by a unit: the whole part, then
\* the fraction with any number of its trailing zeros left out
DisplaysOf(q, places, unit) ==
    LET chars == PadStart(MagChars(q), places + 1)
        whole == SubSeq(chars, 1, Len(chars) - places)
        frac == SubSeq(chars, Len(chars) - places + 1, Len(chars))
        rest0(k) == \A j \in (k + 1)..places : frac[j] = "0"
    IN  {Str(whole) \o "." \o Str(SubSeq(frac, 1, k)) \o " " \o unit :
            k \in {k \in 1..places : rest0(k)}}
        \cup (IF rest0(0) THEN {Str(whole) \o " " \o unit} ELSE {})

\* the token that the address of a settled call resolves to
TokenOf(c) == ResolveValue(calls[c].contextToken, calls[c].chainId, tokenCache)

C12_GenericFallback ==
    \A c \in AmountCallers : \A h \in AmountHexes :
        (/\ AmountSettled(c)
         /\ calls[c].value \in Encodings(h)
         /\ ~JsTruthy(calls[c].contextToken) \/ TokenOf(c).t # "token") =>
            /\ calls[c].pc = "returned"
            /\ calls[c].result.out \in
                  DisplaysOf(FloorScaled(ParseRadix(h, 16), DefaultDecimals, DefaultDecimals),
                             DefaultDecimals, "tokens")

\* after a failed fetch that left the registry empty, a listed token is
\* not resolved and the amount gets the generic unit
C12_Witness ==
    \E c \in AmountCallers :
        /\ AmountSettled(c)
        /\ fetchOutcome = "failed" /\ tokenCache = << >>
        /\ calls[c].value = NativeBigInt(<<"7", "b">>)
        /\ calls[c].contextToken = JsStr(TOKEN_A)
        /\ calls[c].result.out = "0.000000000000000123 tokens"


(***************************************************************************)
(* The raw text and the outcomes of formatValueEnhanced.                   *)
(***************************************************************************)
\* the caches a fetch can leave behind: none (rejected fetch), and what the
\* loop over a response has stored when it ends or throws
RegistryStates ==
    {<< >>} \cup {BuildCache(<< >>, data.items).cache : data \in ResponseData \ {JsUndefined}}

\* the raw text of the value of a call under another network id and cache
RawIn(c, chainId, cache) ==
    LET r == formatValueEnhanced(calls[c].value, chainId, calls[c].contextToken, cache)
    IN  IF r.rejected THEN [given |-> FALSE, raw |-> ""] ELSE [given |-> TRUE, raw |-> r.raw]

\* what a settled call gave as raw
RawOf(c) ==
    IF calls[c].pc = "rejected" THEN [given |-> FALSE, raw |-> ""]
    ELSE [given |-> TRUE, raw |-> calls[c].result.raw]

\* C13: the raw text does not depend on the registry: a run on the same value
\* under any network id and any registry state (any cache a fetch can leave,
\* the empty cache of a failed fetch included) gives the raw text this run gave.
C13_RawIndependentOfRegistry ==
    \A c \in FmtCallers :
        Settled(c) =>
            \A chainId \in FmtChains : \A cache \in RegistryStates :
                RawIn(c, chainId, cache) = RawOf(c)

\* an address whose display carries a symbol here and none with an empty
\* cache, the raw text being the same
C13_Witness ==
    \E c \in FmtCallers :
        /\ Settled(c) /\ calls[c].pc = "returned"
        /\ calls[c].value = JsStr(TOKEN_A)
        /\ calls[c].result.formatted = "USDC (" \o Truncated(TOKEN_A) \o ")"
        /\ formatValueEnhanced(calls[c].value, calls[c].chainId, calls[c].contextToken,
                               << >>).formatted = Truncated(TOKEN_A)
        /\ RawIn(c, NoChain, << >>) = RawOf(c)

\* C14: in every branch the raw text is the JSON serialization of the value,
\* so that two different values never have the same raw text.
C14_RawIsJson ==
    \A c \in FmtCallers :
        (Settled(c) /\ calls[c].pc = "returned") =>
            /\ calls[c].result.raw = JsonStringify(calls[c].value, "").out
            /\ \A other \in FmtValues \ {calls[c].value} :
                  RawIn(c, calls[c].chainId, tokenCache)
                      # [given |-> TRUE,
                         raw |-> formatValueEnhanced(other, calls[c].chainId,
                                    calls[c].contextToken, tokenCache).raw]

\* C15: a call of formatValueEnhanced never fails: its promise is fulfilled
\* with a display and a raw text for every value.
C15_NoFailingOutcome ==
    \A c \in FmtCallers :
        calls[c].kind = "formatValueEnhanced" => calls[c].pc # "rejected"


\* the first six and the last four characters of an address around "..."
Shortened(address) ==
    Str(SubSeq(address, 1, 6)) \o "..." \o Str(SubSeq(address, Len(address) - 3, Len(address)))

\* C17: an address-shaped string is shown as "SYMBOL (first 6...last 4)" when
\* the registry resolves it under the network id of the call, and as
\* "first 6...last 4" alone when it does not.
C17_AddressDisplay ==
    \A c \in FmtCallers :
        (Settled(c) /\ LooksLikeAddress(calls[c].value)) =>
            LET token == ResolveValue(calls[c].value, calls[c].chainId, tokenCache)
            IN  /\ calls[c].pc = "returned"
                /\ calls[c].result.formatted =
                      IF token.t = "token"
                      THEN token.info.symbol \o " (" \o Shortened(calls[c].value.s) \o ")"
                      ELSE Shortened(calls[c].value.s)

\* the address resolved, so that the display carries the symbol
C17_Witness ==
    \E c \in FmtCallers :
        /\ Settled(c) /\ calls[c].value = JsStr(TOKEN_A) /\ calls[c].chainId = "1"
        /\ calls[c].result.formatted = "USDC (0xaaaa...aaaa)"

\* the label of a hop: its symbol when resolved, else its shortened address
HopLabel(hop, chainId, cache) ==
    LET token == ResolveValue(hop, chainId, cache)
    IN  IF token.t = "token" THEN token.info.symbol ELSE Shortened(hop.s)

\* the labels from i on, an arrow before each
RECURSIVE ArrowsFrom(_, _, _, _)
ArrowsFrom(path, i, chainId, cache) ==
    IF i > Len(path) THEN ""
    ELSE " " \o Arrow \o " " \o HopLabel(path[i], chainId, cache)
         \o ArrowsFrom(path, i + 1, chainId, cache)

\* C18: a non-empty sequence of n address strings is shown as the n labels of
\* its hops in order with n - 1 arrows " -> " between them, the label of a hop
\* being its symbol under the network id of the call or its shortened address.
C18_AddressPath ==
    \A c \in FmtCallers :
        (Settled(c) /\ calls[c].value \in AddressPaths) =>
            /\ calls[c].pc = "returned"
            /\ calls[c].result.formatted =
                  HopLabel(calls[c].value.items[1], calls[c].chainId, tokenCache)
                  \o ArrowsFrom(calls[c].value.items, 2, calls[c].chainId, tokenCache)

\* three resolved hops on network "1"
C18_Witness ==
    \E c \in FmtCallers :
        /\ Settled(c) /\ calls[c].chainId = "1"
        /\ calls[c].value = ResolvablePath
        /\ calls[c].result.formatted = "USDC -> ETH -> USDC"

\* C19: the one-hop fee-tier path [{tokenIn: A, tokenOut: B, fee: 3000}] with
\* both tokens resolved is shown exactly as SYMBOL_A, a space, the arrow
\* directly followed by "(0.3%)", a space and SYMBOL_B.
C19_FeeTierPath ==
    \A c \in FmtCallers :
        (/\ Settled(c) /\ calls[c].value = OneHopFeePath
         /\ ResolveValue(JsStr(TOKEN_A), calls[c].chainId, tokenCache).t = "token"
         /\ ResolveValue(JsStr(ZERO_ADDRESS), calls[c].chainId, tokenCache).t = "token") =>
            /\ calls[c].pc = "returned"
            /\ calls[c].result.formatted =
                  HopLabel(JsStr(TOKEN_A), calls[c].chainId, tokenCache)
                  \o " " \o Arrow \o "(0.3%) "
                  \o HopLabel(JsStr(ZERO_ADDRESS), calls[c].chainId, tokenCache)


\* the label of a currency of a swap: symbol, "Native ETH" or shortened address
CurrencyLabel(currency, chainId, cache) ==
    LET token == ResolveValue(currency, chainId, cache)
    IN  IF token.t = "token" THEN token.info.symbol
        ELSE IF currency.s = ZERO_ADDRESS THEN NativeEthText ELSE Shortened(currency.s)

\* the currency whose decimals scale the output amounts
OutputCurrency(obj) ==
    IF HasKey(obj, "currencyOut") THEN Get(obj, "currencyOut")
    ELSE FirstHopCurrency(Get(obj, "path"))

\* the line of a field of a swap descriptor, were the field present
LineOf(obj, field, chainId, cache) ==
    CASE field = "currencyIn" ->
            "From: " \o CurrencyLabel(Get(obj, field), chainId, cache)
      [] field = "currencyOut" ->
            "To: " \o CurrencyLabel(Get(obj, field), chainId, cache)
      [] field = "amountIn" ->
            "Amount In: "
                \o formatTokenAmount(Get(obj, field), Get(obj, "currencyIn"), chainId, cache).out
      [] field = "amountOut" ->
            "Amount Out: "
                \o formatTokenAmount(Get(obj, field), OutputCurrency(obj), chainId, cache).out
      [] field = "amountOutMinimum" ->
            "Min Out: "
                \o formatTokenAmount(Get(obj, field), OutputCurrency(obj), chainId, cache).out
      [] field = "path" ->
            "Path: " \o formatV4Path(Get(obj, field).items, chainId, cache).out

LineFields == <<"currencyIn", "currencyOut", "amountIn", "amountOut", "amountOutMinimum", "path">>

\* the lines of the fields that are present, in the fixed order
RECURSIVE LinesFrom(_, _, _, _)
LinesFrom(obj, i, chainId, cache) ==
    IF i > Len(LineFields) THEN <<>>
    ELSE (IF HasKey(obj, LineFields[i]) THEN <<LineOf(obj, LineFields[i], chainId, cache)>>
          ELSE <<>>)
         \o LinesFrom(obj, i + 1, chainId, cache)

ExpectedSwapText(lines) == IF lines = <<>> THEN "Swap Details" ELSE JoinStr(lines, "\n")

\* C20: the display of a swap descriptor is one line for each of the fields
\* currencyIn, currencyOut, amountIn, amountOut, amountOutMinimum and path
\* that is present (an amount of zero and an empty path included), in the
\* order From, To, Amount In, Amount Out, Min Out, Path, and the placeholder
\* "Swap Details" when no field is present.
C20_SwapLines ==
    \A c \in FmtCallers :
        (Settled(c) /\ calls[c].value \in LineSwaps) =>
            /\ calls[c].pc = "returned"
            /\ calls[c].result.formatted =
                  ExpectedSwapText(LinesFrom(calls[c].value, 1, calls[c].chainId, tokenCache))


(***************************************************************************)
(* formatter.ts: the plain formatter that enhanceParams falls back to.     *)
(***************************************************************************)
MSG_SENDER_ADDRESS == <<"0", "x">> \o Rep("0", AddressHexLen - 1) \o <<"1">>
ROUTER_ADDRESS == <<"0", "x">> \o Rep("0", AddressHexLen - 1) \o <<"2">>

formatAddress(address) ==
    IF ~IsAddress(address) THEN Str(address)
    ELSE IF address = ZERO_ADDRESS THEN "ETH (Native)"
    ELSE IF address = MSG_SENDER_ADDRESS THEN "MSG_SENDER"
    ELSE IF address = ROUTER_ADDRESS THEN "ROUTER_ADDRESS"
    ELSE Truncated(address)

\* decimals: number = 18
AmountDecimals == 18

\* formatAmount(amount) of a string or a bigint
AmountOrText(amount, converted) ==
    IF converted.threw THEN Str(amount.s) ELSE Str(FormatUnits(converted.value, AmountDecimals))

formatAmount(amount) ==
    IF amount.t = "str" THEN AmountOrText(amount, BigIntOfString(amount.s))
    ELSE Str(FormatUnits(amount, AmountDecimals))

\* String.prototype.includes
Includes(s, sub) ==
    \E i \in 1..(Len(s) - Len(sub) + 1) : SubSeq(s, i, i + Len(sub) - 1) = sub

\* name.toLowerCase().includes('amount') || name.toLowerCase().includes('value')
IsAmountName(name) ==
    \/ Includes(ToLowerCase(name), <<"a", "m", "o", "u", "n", "t">>)
    \/ Includes(ToLowerCase(name), <<"v", "a", "l", "u", "e">>)

\* formatted + ' (' + value + ' Wei)'
WithWei(value, text) == Ret(formatAmount(value) \o " (" \o Str(text) \o " Wei)", <<>>)

\* '[' + value.map(v => formatValue(name, v)).join(', ') + ']'
Bracketed(parts) ==
    IF \E i \in 1..Len(parts) : parts[i].threw THEN Thrown(<<>>)
    ELSE Ret("[" \o JoinStr([i \in 1..Len(parts) |-> parts[i].out], ", ") \o "]", <<>>)

\* return JSON.stringify(value, null, 2), a TypeError for a bigint inside
ObjectText(json) == IF json.kind = "throw" THEN Thrown(<<>>) ELSE Ret(json.out, <<>>)

RECURSIVE formatValue(_, _)
formatValue(name, value) ==
    IF value.t \in {"null", "undefined"} THEN Ret("null", <<>>)
    ELSE IF value.t = "arr"
    THEN IF value.items = <<>> THEN Ret("[]", <<>>)
         ELSE IF \A i \in 1..Len(value.items) :
                    value.items[i].t = "str" /\ StartsWith0x(value.items[i].s)
         THEN Ret(JoinStr([i \in 1..Len(value.items) |-> formatAddress(value.items[i].s)],
                          " " \o Arrow \o " "), <<>>)
         ELSE Bracketed([i \in 1..Len(value.items) |-> formatValue(name, value.items[i])])
    ELSE IF LooksLikeAddress(value) THEN Ret(formatAddress(value.s), <<>>)
    ELSE IF IsAmountName(name) /\ value.t = "str" /\ AllDigitsOf(value.s, 10)
    THEN WithWei(value, value.s)
    ELSE IF IsAmountName(name) /\ value.t = "bigint"
    THEN WithWei(value, IntegerToString(value))
    ELSE IF value.t = "bool" THEN Ret(IF value.b THEN "true" ELSE "false", <<>>)
    ELSE IF value.t = "obj" THEN ObjectText(JsonStringify(value, ""))
    ELSE Ret(ToStringValue(value), <<>>)

(***************************************************************************)
(* CommandCard.tsx: enhanceParams formats the parameters of a command one  *)
(* after the other and stores the list of the results.                     *)
(***************************************************************************)
\* an entry of the list: lines 33-38 and 41-46
EnhancedParam(param, formatted, raw) ==
    [name |-> Get(param, "name"), value |-> Get(param, "value"),
     formatted |-> formatted, raw |-> raw]

\* what a run leaves: whether setEnhancedParams was called, and with which
\* list; log holds the resolveToken calls of the run
Enhanced(set, list, log) == [t |-> "enhanced", set |-> set, list |-> list, log |-> log]

RECURSIVE EnhanceFrom(_, _, _, _, _, _)

\* lines 39-47, the catch of the inner try: the object literal calls
\* formatValue and then JSON.stringify; what they throw leaves the loop and
\* is caught at line 52, past setEnhancedParams
Fallback(params, i, chainId, cache, enhanced, log, formatted, json) ==
    IF formatted.threw \/ json.kind = "throw" THEN Enhanced(FALSE, <<>>, log)
    ELSE EnhanceFrom(params, i + 1, chainId, cache,
                     Append(enhanced,
                            EnhancedParam(params[i], formatted.out,
                                          IF json.kind = "text" THEN json.out ELSE "undefined")),
                     log)

\* lines 31-38 given the outcome r of the awaited formatValueEnhanced
AfterFormat(params, i, chainId, cache, enhanced, log, r) ==
    IF r.rejected
    THEN Fallback(params, i, chainId, cache, enhanced, log,
                  formatValue(Get(params[i], "name").s, Get(params[i], "value")),
                  JsonStringify(Get(params[i], "value"), ""))
    ELSE EnhanceFrom(params, i + 1, chainId, cache,
                     Append(enhanced, EnhancedParam(params[i], r.formatted, r.raw)),
                     log \o r.log)

\* the loop of line 29 from the i-th parameter on
EnhanceFrom(params, i, chainId, cache, enhanced, log) ==
    IF i > Len(params) THEN Enhanced(TRUE, enhanced, log)
    ELSE AfterFormat(params, i, chainId, cache, enhanced, log,
                     formatValueEnhanced(Get(params[i], "value"), chainId, JsUndefined, cache))

enhanceParams(params, chainId, cache) == EnhanceFrom(params, 1, chainId, cache, <<>>, <<>>)

(***************************************************************************)
(* SpecParams: an expanded command card enhances its parameters while the  *)
(* registry loads.                                                         *)
(***************************************************************************)
MaxParams == 2

AmountOutName == <<"a", "m", "o", "u", "n", "t", "O", "u", "t">>
RecipientName == <<"r", "e", "c", "i", "p", "i", "e", "n", "t">>
PayerName == <<"p", "a", "y", "e", "r">>

\* a native big integer, a record, an address and a boolean
ParamPool ==
    {Param(AmountInName, NativeBigInt(<<"7", "b">>)), Param(AmountOutName, SmallAmount),
     Param(RecipientName, JsStr(TOKEN_A)), Param(PayerName, JsBool(TRUE))}

CommandParams == SeqsUpTo(ParamPool, MaxParams)
ParamsChains == {NoChain, "1"}
ParamsCallers == {1}

ParamsRequests == {<<params, n>> : params \in CommandParams, n \in ParamsChains}

\* the run reaches a resolveToken
EnhanceCallsResolveToken(q) == enhanceParams(q[1], q[2], << >>).log # <<>>
ParamsAwaitingRequests == {q \in ParamsRequests : EnhanceCallsResolveToken(q)}

\* setLoading(true) and a run that never asks the registry
EnhanceRuns(c, params, chainId) ==
    /\ calls[c].pc \in {"idle", "returned"}
    /\ <<params, chainId>> \in ParamsRequests \ ParamsAwaitingRequests
    /\ calls' = [calls EXCEPT ![c] =
                    [pc |-> "ready", kind |-> "enhanceParams", address |-> <<>>,
                     chainId |-> chainId, value |-> JsArr(params),
                     contextToken |-> JsUndefined, via |-> "none", result |-> NoResult]]
    /\ UNCHANGED <<networksData, tokenCache, fetchPromise, fetchPc, requests, fetchOutcome>>

\* setLoading(true) and the run up to the await of its first resolveToken
EnhanceAwaits(c, params, chainId) ==
    /\ <<params, chainId>> \in ParamsAwaitingRequests
    /\ Await(c, "enhanceParams", <<>>, chainId, JsArr(params), JsUndefined)

\* lines 51-56: setEnhancedParams(enhanced) unless the loop was left by a
\* throw, and setLoading(false) in either case
SetEnhancedParams(c) ==
    /\ calls[c].kind = "enhanceParams"
    /\ \/ calls[c].pc = "ready"
       \/ calls[c].pc = "awaiting" /\ fetchPromise = "fulfilled"
    /\ calls' = [calls EXCEPT ![c] =
                    [@ EXCEPT !.pc = "returned",
                              !.result = enhanceParams(calls[c].value.items, calls[c].chainId,
                                                       tokenCache)]]
    /\ UNCHANGED <<networksData, tokenCache, fetchPromise, fetchPc, requests, fetchOutcome>>

NextParams ==
    \/ \E c \in ParamsCallers, params \in CommandParams, n \in ParamsChains :
          EnhanceRuns(c, params, n)
    \/ \E c \in ParamsCallers, params \in CommandParams, n \in ParamsChains :
          EnhanceAwaits(c, params, n)
    \/ \E c \in ParamsCallers : SetEnhancedParams(c)
    \/ FetchStep

SpecParams == Init /\ [][NextParams]_vars

\* the entry formatValueEnhanced alone gives for a parameter, when it gives one
EntryAlone(param, chainId, cache) ==
    LET r == formatValueEnhanced(Get(param, "value"), chainId, JsUndefined, cache)
    IN  [fails |-> r.rejected,
         entry |-> EnhancedParam(param, r.formatted, r.raw)]

\* C16: after a run of enhanceParams the stored list has one entry for each
\* parameter of the command, in the order of the command, and every parameter
\* whose own formatting does not fail has the entry that formatValueEnhanced
\* gives for it alone.
C16_SiblingIsolation ==
    \A c \in ParamsCallers :
        (calls[c].kind = "enhanceParams" /\ calls[c].pc = "returned") =>
            LET params == calls[c].value.items
                stored == calls[c].result
            IN  /\ stored.set
                /\ Len(stored.list) = Len(params)
                /\ \A i \in 1..Len(params) :
                      /\ stored.list[i].name = Get(params[i], "name")
                      /\ ~EntryAlone(params[i], calls[c].chainId, tokenCache).fails =>
                            stored.list[i]
                                = EntryAlone(params[i], calls[c].chainId, tokenCache).entry


\* C21: in a swap descriptor amountOut and amountOutMinimum are scaled with
\* the token of currencyOut whenever currencyOut is given, also when the path
\* names another token; without currencyOut they are scaled with the token of
\* the first hop of a non-empty path; never with the token of currencyIn.
C21_OutputCurrency ==
    \A c \in FmtCallers :
        (Settled(c) /\ calls[c].value \in OutputSwaps \cup {FullSwap}) =>
            /\ calls[c].pc = "returned"
            /\ calls[c].result.formatted =
                  ExpectedSwapText(LinesFrom(calls[c].value, 1, calls[c].chainId, tokenCache))

\* currencyIn and the first hop are USDC (6 decimals), currencyOut is the
\* native token: the output amounts are shown in ETH
C21_Witness ==
    \E c \in FmtCallers :
        /\ Settled(c)
        /\ calls[c].value = ExplicitOutputSwap
        /\ calls[c].result.formatted
              = "From: USDC\nTo: ETH\nAmount Out: 1 ETH\nMin Out: 1 ETH\nPath: -> USDC"


\* the address-shaped strings that occur in a value
RECURSIVE AddressesIn(_)
AddressesIn(v) ==
    CASE v.t = "str" -> IF LooksLikeAddress(v) THEN {v.s} ELSE {}
      [] v.t = "arr" -> UNION {AddressesIn(v.items[i]) : i \in 1..Len(v.items)}
      [] v.t = "obj" -> UNION {AddressesIn(v.fields[i][2]) : i \in 1..Len(v.fields)}
      [] OTHER -> {}

\* C22: one formatValueEnhanced call issues at most as many resolveToken
\* calls as there are distinct addresses in its value (and its contextual
\* currency): an address used for several lines counts once.
C22_RegistryTraffic ==
    \A c \in FmtCallers :
        (Settled(c) /\ calls[c].pc = "returned") =>
            Len(calls[c].result.log)
                <= Cardinality(AddressesIn(calls[c].value)
                               \cup AddressesIn(calls[c].contextToken))


(***************************************************************************)
(* The registry over time.                                                 *)
(***************************************************************************)
\* the fetch has settled: the body of the fetch promise has run to its end
FetchSettled == fetchPc = "done"

\* C23: the registry is written once: fetchPromise goes from null to pending
\* to fulfilled and stays there, the cache and the network list change only
\* in the step that settles the fetch, and after that step no call of any
\* kind changes the cache, the network list or the promise.
C23_WriteOnce ==
    [][/\ FetchSettled =>
            /\ FetchSettled'
            /\ tokenCache' = tokenCache
            /\ networksData' = networksData
            /\ fetchPromise' = fetchPromise
       /\ (tokenCache' # tokenCache \/ networksData' # networksData) =>
            ~FetchSettled /\ FetchSettled'
       /\ fetchPromise = "null" => fetchPromise' \in {"null", "pending"}
       /\ fetchPromise = "pending" => fetchPromise' \in {"pending", "fulfilled"}
       /\ fetchPromise = "fulfilled" => fetchPromise' = "fulfilled"]_vars

\* a call made after the fetch has filled the cache has returned
C23_Witness ==
    /\ FetchSettled
    /\ tokenCache # << >>
    /\ \E c \in Callers :
          /\ calls[c].pc = "returned" /\ calls[c].via = "loaded"
          /\ calls[c].kind = "resolveToken"


\* SpecLive: the callers of Spec under a fair schedule.  The fetch settles
\* (the network answers or fails), and the continuation of an await whose
\* promise has settled is run by the event loop.
SpecLive ==
    /\ Spec
    /\ WF_vars(FetchStep)
    /\ \A c \in Callers : WF_vars(Resume(c))

\* a resolveToken call that has not returned yet
Pending(c) == calls[c].kind = "resolveToken" /\ calls[c].pc \in {"awaiting", "ready"}

\* C24: every resolveToken call returns in the end.  A call waits for nothing
\* but the one fetch: it is suspended only while that fetch is in flight, and
\* once the fetch has settled a pending call can go on at once.
C24_EventuallyReturns ==
    /\ \A c \in Callers : Pending(c) ~> (calls[c].pc = "returned")
    /\ [](\A c \in Callers :
            Pending(c) =>
               /\ requests <= 1
               /\ calls[c].pc = "awaiting" => fetchPromise # "null"
               /\ FetchSettled => CanResume(calls[c]))

\* a call that was suspended on the fetch another call had started has
\* returned
C24_Witness ==
    \E c \in Callers :
        /\ calls[c].kind = "resolveToken" /\ calls[c].pc = "returned"
        /\ calls[c].via = "join"



\* the text an amount is written with: the string itself, the hex field of a
\* record
LiteralText(amount) ==
    IF amount.t = "str" THEN Str(amount.s) ELSE Str(HexOf(amount).s)

\* C25: an amount that cannot be read as an integer (a non-numeric string, a
\* record whose hex field is not hexadecimal) is shown as its literal text,
\* alone and as the amountIn of a swap descriptor; the call raises no error and
\* the From line of the descriptor stays.
C25_LiteralPassThrough ==
    \A c \in FmtCallers :
        (Settled(c) /\ calls[c].value \in MalformedAmounts \cup MalformedSwaps) =>
            /\ calls[c].pc = "returned"
            /\ calls[c].result.formatted =
                  IF calls[c].value \in MalformedAmounts
                  THEN LiteralText(calls[c].value)
                  ELSE "From: "
                          \o CurrencyLabel(Get(calls[c].value, "currencyIn"),
                                           calls[c].chainId, tokenCache)
                          \o "\nAmount In: "
                          \o LiteralText(Get(calls[c].value, "amountIn"))



\* C26: every resolveToken call made while a value is formatted under a
\* network id carries that network id, whatever the depth at which it is made
\* (elements of a named-field list, hops of the three kinds of path, currencies
\* and amounts of a swap descriptor, an address or an amount at top level).
C26_NetworkPropagation ==
    \A c \in FmtCallers :
        (calls[c].kind = "formatValueEnhanced" /\ calls[c].pc = "returned") =>
            \A i \in 1..Len(calls[c].result.log) :
                calls[c].result.log[i].chainId = calls[c].chainId

\* a list whose elements are a path and a swap descriptor, formatted under
\* network "1": the hops of both paths and the amounts are resolved there
C26_Witness ==
    \E c \in FmtCallers :
        /\ Settled(c)
        /\ calls[c].value = NestedList
        /\ calls[c].chainId = "1"
        /\ Len(calls[c].result.log) > Len(MixedPath.items)
        /\ \A i \in 1..Len(calls[c].result.log) : calls[c].result.log[i].chainId = "1"



\* where the response lists a token at the address, lower-cased: the pairs
\* <<network, token>> of positions, for all networks or those with one id
Listings(networks, address, chains) ==
    {<<i, j>> \in UNION {{<<i, j>> : j \in 1..Len(networks[i].tokens.items)} :
                           i \in 1..Len(networks)} :
        /\ networks[i].chain_id \in chains
        /\ networks[i].tokens.items[j].contract.t = "str"
        /\ ToLowerCase(networks[i].tokens.items[j].contract.s) = ToLowerCase(address)}

\* the metadata of the listing that comes last in the order of the response
LastListed(networks, listings) ==
    LET last == CHOOSE p \in listings :
                    \A q \in listings : q[1] < p[1] \/ (q[1] = p[1] /\ q[2] <= p[2])
    IN  TokenInfo(networks[last[1]].tokens.items[last[2]])

AllChains == {network.chain_id : network \in NetworkPool}

\* C27: after a successful fetch, for a valid address other than the native
\* sentinel: a call without a network id, or with one under which the response
\* lists no token at the address, returns the metadata of the listing that is
\* last in the response among all networks; a call with the id of a network
\* that lists the address returns the last listing of that network.
C27_LastWriterWins ==
    \A c \in Callers :
        ( /\ Returned(c, "resolveToken")
          /\ fetchOutcome = "ok"
          /\ IsAddress(calls[c].address)
          /\ calls[c].address # ZERO_ADDRESS ) =>
            LET networks == networksData.items
                scoped == Listings(networks, calls[c].address, {calls[c].chainId})
                all == Listings(networks, calls[c].address, AllChains)
            IN  calls[c].result =
                    IF scoped # {} THEN Found(LastListed(networks, scoped))
                    ELSE IF all # {} THEN Found(LastListed(networks, all))
                    ELSE NotFound

\* the response lists the address first as DAI on network "2", then as USDC
\* on network "1": a call without network id got USDC with 6 decimals, and
\* DAI is still cached under the scoped key of network "2"
C27_Witness ==
    \E c \in Callers :
        /\ Returned(c, "resolveToken")
        /\ fetchOutcome = "ok"
        /\ calls[c].address = TOKEN_A_CHECKSUM
        /\ calls[c].chainId = NoChain
        /\ Len(networksData.items) = 2
        /\ networksData.items[1].chain_id = "2"
        /\ networksData.items[2].chain_id = "1"
        /\ calls[c].result.t = "token"
        /\ calls[c].result.info.symbol = "USDC"
        /\ calls[c].result.info.decimals = 6
        /\ tokenCache[ChainKey("2", TOKEN_A)].symbol = "DAI"



\* C28: the elements of a named-field list are formatted without contextual
\* currency, whatever the caller passed and whatever a sibling element names:
\* in the list of currencyIn and amountIn the address is shown as an address
\* alone would be, and the amount scaled by 18 decimals with the unit "tokens".
C28_ListDropsContext ==
    \A c \in FmtCallers :
        (Settled(c) /\ calls[c].value = FlatList) =>
            LET currency == Get(FlatList.items[1], "value")
                token == ResolveValue(currency, calls[c].chainId, tokenCache)
                address == IF token.t = "token"
                           THEN token.info.symbol \o " (" \o Shortened(currency.s) \o ")"
                           ELSE Shortened(currency.s)
                amounts == DisplaysOf(FloorScaled(ParseRadix(<<"7", "b">>, 16),
                                                  DefaultDecimals, DefaultDecimals),
                                      DefaultDecimals, "tokens")
            IN  /\ calls[c].pc = "returned"
                /\ calls[c].result.formatted \in
                      {"currencyIn: " \o address \o "\namountIn: " \o amount :
                          amount \in amounts}

\* the caller passed USDC (6 decimals) as contextual currency and the sibling
\* currencyIn resolved to USDC: the amount 123 is still shown with 18 decimals
C28_Witness ==
    \E c \in FmtCallers :
        /\ Settled(c)
        /\ calls[c].value = FlatList
        /\ calls[c].contextToken = JsStr(TOKEN_A)
        /\ calls[c].result.formatted
              = "currencyIn: USDC (0xaaaa...aaaa)\namountIn: 0.000000000000000123 tokens"

====
